---- MODULE Spec2Model ----
(***************************************************************************)
(* Model of the discern-data-parse report scripts: each script reads a     *)
(* line-delimited JSON log line by line into a list of records, then       *)
(* builds a pandas DataFrame from it and reduces it to one summary row per *)
(* entity (device, program, or canonical IP pair).                         *)
(*                                                                         *)
(* Conventions of the model                                                *)
(*  - a Python str is the sequence of its code points, so that string      *)
(*    comparison (sorted(), sort_values, groupby key order) is the         *)
(*    lexicographic comparison Python performs;                            *)
(*  - a float is an exact rational <<num, den>> in lowest terms, den > 0;  *)
(*    NaN / NaT (pandas' missing value) is the empty tuple <<>>;           *)
(*  - a DataFrame is the sequence of its rows, a row is a record.          *)
(***************************************************************************)
EXTENDS Integers, Sequences, FiniteSets, TLC

VARIABLES
    report,          \* which script runs
    pc,              \* "reading" (the line loop), "batch" (the packet loop
                     \* of the network script), "done" (the function
                     \* returned), "again" (it returned from a second call),
                     \* "saved", "save_failed", "no_data" (the script ended)
    line_num,        \* lines read so far
    parsing_errors,  \* lines counted as skipped
    extracted,       \* extracted_data / extracted_records / extracted_packets
    df,              \* the DataFrame the summary is aggregated from
    summary,         \* the rows of the returned summary
    returned,        \* "pending", "None", "fallback", "zero_summary" or
                     \* "summary"
    wire,            \* history: the packets read so far as the file gave them
                     \* (network script only)
    csv              \* the rows of the output file, <<>> while none is written

vars ==
    <<report, pc, line_num, parsing_errors, extracted, df, summary, returned, wire,
      csv>>

(***************************************************************************)
(* Bounds of the model.                                                    *)
(***************************************************************************)
\* Largest number of input lines a run reads.
MaxLines == 3

\* Largest number of packets a run of the network script extracts.
MaxPackets == 3

\* Largest number of input lines a run of the process-creation script reads.
MaxEvents == 5

(***************************************************************************)
(* Generic helpers: sequences, strings, rationals, missing values.         *)
(***************************************************************************)
NaN == <<>>

IsNaN(x) == x = <<>>

Abs(n) == IF n < 0 THEN -n ELSE n

RECURSIVE GCD(_, _)
GCD(a, b) == IF b = 0 THEN a ELSE GCD(b, a % b)

\* The float n / d (d # 0), in lowest terms with a positive denominator.
Frac(n, d) ==
    LET g == GCD(Abs(n), Abs(d))
        s == IF d < 0 THEN -1 ELSE 1
    IN  <<(s * n) \div g, (s * d) \div g>>

FracLeq(p, q) == p[1] * q[2] <= q[1] * p[2]

\* The largest and the smallest element of a non-empty set of integers.
SetMax(S) == CHOOSE m \in S : \A x \in S : x <= m

SetMin(S) == CHOOSE m \in S : \A x \in S : m <= x

\* Python's str comparison a < b: lexicographic on code points.
RECURSIVE StrLess(_, _)
StrLess(a, b) ==
    IF b = <<>> THEN FALSE
    ELSE IF a = <<>> THEN TRUE
    ELSE IF Head(a) # Head(b) THEN Head(a) < Head(b)
    ELSE StrLess(Tail(a), Tail(b))

RECURSIVE SumSeq(_)
SumSeq(s) == IF s = <<>> THEN 0 ELSE Head(s) + SumSeq(Tail(s))

RECURSIVE MaxSeq(_)
MaxSeq(s) ==
    IF Len(s) = 1 THEN s[1]
    ELSE LET m == MaxSeq(Tail(s)) IN IF Head(s) >= m THEN Head(s) ELSE m

RECURSIVE MinSeq(_)
MinSeq(s) ==
    IF Len(s) = 1 THEN s[1]
    ELSE LET m == MinSeq(Tail(s)) IN IF Head(s) <= m THEN Head(s) ELSE m

(***************************************************************************)
(* Input alphabet shared by the reports.                                   *)
(***************************************************************************)
\* Largest epoch second pd.to_datetime(unit='s', errors='coerce') can
\* represent, scaled to the model's range (pandas: 9223372036); a larger
\* value is coerced to NaT.
MaxEpoch == 99

\* pd.to_datetime(ts, unit='s', errors='coerce'): <<ts>>, or NaT.
ToDatetime(ts) == IF -MaxEpoch <= ts /\ ts <= MaxEpoch THEN <<ts>> ELSE NaN

\* Device identifiers "d1" and "d2".
DevIDs == {<<100, 49>>, <<100, 50>>}

\* What one line does to the reader's state: the records it appends and
\* whether it is counted in parsing_errors.
Appends(recs) == [recs |-> recs, err |-> 0]

Skipped == [recs |-> <<>>, err |-> 0]

ParseError == [recs |-> <<>>, err |-> 1]

\* What a processing function leaves behind: the kind of value it returns,
\* the frame it aggregated and the rows of the returned summary.
Result(kind, frame, rows) == [returned |-> kind, df |-> frame, summary |-> rows]

\* The function returns result.
Returns(result) ==
    /\ returned' = result.returned
    /\ df' = result.df
    /\ summary' = result.summary

\* The distinct keys in ascending order, as groupby(...) (sort=True)
\* orders its groups.
SortedKeys(keys, Less(_, _)) ==
    [p \in 1..Cardinality(keys) |->
        CHOOSE k \in keys : Cardinality({o \in keys : Less(o, k)}) = p - 1]

\* Stable sort of the rows of s by Less: row i goes after every row that is
\* smaller, and after every earlier row that is not greater.
SortStable(s, Less(_, _)) ==
    LET Rank(i) ==
            Cardinality({j \in DOMAIN s :
                            \/ Less(s[j], s[i])
                            \/ ~Less(s[i], s[j]) /\ j < i}) + 1
    IN  [p \in DOMAIN s |-> s[CHOOSE i \in DOMAIN s : Rank(i) = p]]

\* A plausible slip: 'count' in place of 'sum', the number of cells that
\* are not NaN.
CountNotNa(s) == Cardinality({i \in DOMAIN s : ~IsNaN(s[i])})

\* Sum of a column that may hold NaN (pandas skips NaN in sum).
RECURSIVE SumSkipNa(_)
SumSkipNa(s) ==
    IF s = <<>> THEN 0
    ELSE (IF IsNaN(Head(s)) THEN 0 ELSE Head(s)[1]) + SumSkipNa(Tail(s))

\* Series.fillna(0) on one cell.
FillNa0(x) == IF IsNaN(x) THEN 0 ELSE x[1]

Column(rows, f) == [i \in DOMAIN rows |-> rows[i][f]]

(***************************************************************************)
(* txt-cpu-load.py: CPU load per device, per-entity-next-sample policy.    *)
(***************************************************************************)
CpuTimes == {0, 10, 20}

CpuLoads == {10, 20, 30}

\* The lines of a CPU load log.  kind:
\*   "ok"          a record with DevID, Load (a list of numbers), TimeStamp
\*   "late"        as "ok", with a TimeStamp beyond what to_datetime holds
\*   "malformed"   not JSON
\*   "missing"     JSON without DevID (or TimeStamp, or Load)
\*   "badload"     Load[0] is not a number
\*   "badts"       TimeStamp is a non-numeric string
CpuLoadLines ==
    [kind : {"ok"}, DevID : DevIDs, TimeStamp : CpuTimes, Load : CpuLoads]
    \cup [kind : {"late"}, DevID : {<<100, 49>>}, TimeStamp : {MaxEpoch + 1},
          Load : {10}]
    \cup [kind : {"malformed", "missing", "badload", "badts"}, DevID : {<<>>},
          TimeStamp : {0}, Load : {0}]

\* One iteration of the reading loop.
CpuLoadExtract(line) ==
    CASE line.kind = "malformed" -> ParseError
      [] line.kind = "missing" -> Skipped
      [] line.kind = "badload" -> Skipped
      [] line.kind = "badts" -> ParseError
      [] OTHER -> Appends(<<[DevID |-> line.DevID, TimeStamp |-> line.TimeStamp,
                             CpuLoad |-> line.Load]>>)

\* A plausible slip: the dropna left out, the rows with NaT kept.
CpuLoadCleanKeepsAll(recs) == recs

\* DataFrame(extracted_data), to_datetime/to_numeric with errors='coerce',
\* dropna: the rows whose TimeStamp is not NaT.
CpuLoadClean(recs) ==
    LET Valid(r) == ~IsNaN(ToDatetime(r.TimeStamp)) IN SelectSeq(recs, Valid)

\* Row order of sort_values(by=['DevID', 'TimeStamp']).
CpuLoadRowLess(a, b) ==
    \/ StrLess(a.DevID, b.DevID)
    \/ a.DevID = b.DevID /\ a.TimeStamp < b.TimeStamp

\* A plausible slip: sort_values(by=['DevID']), the TimeStamp left out.
CpuLoadSortByDevice(rows) ==
    LET DevLess(a, b) == StrLess(a.DevID, b.DevID) IN SortStable(rows, DevLess)

\* A plausible slip: a sort that is not stable, rows of equal DevID and
\* TimeStamp coming out in reverse input order.
CpuLoadSortTiesReversed(rows) ==
    LET reversed == [i \in DOMAIN rows |-> rows[Len(rows) + 1 - i]]
    IN  SortStable(reversed, CpuLoadRowLess)

\* A plausible slip: the sort left out, the rows kept in input order.
CpuLoadUnsorted(rows) == rows

CpuLoadSort(rows) == SortStable(rows, CpuLoadRowLess)

\* A plausible slip: df['TimeStamp'].shift(-1) without the groupby, so the
\* last row of a device is paired with the first row of the next device.
NextTimeStampUngrouped(rows, i) ==
    IF i < Len(rows) THEN <<rows[i + 1].TimeStamp>> ELSE NaN

\* groupby('DevID')['TimeStamp'].shift(-1) at row i of the sorted frame:
\* the TimeStamp of the next row of the same device, or NaT.
NextTimeStamp(rows, i) ==
    LET later == {j \in DOMAIN rows : j > i /\ rows[j].DevID = rows[i].DevID}
    IN  IF later = {} THEN NaN
        ELSE <<rows[CHOOSE j \in later : \A k \in later : j <= k].TimeStamp>>

\* The columns NextTimeStamp, Duration and LoadTimesDuration.
CpuLoadDurations(rows) ==
    [i \in DOMAIN rows |->
        LET nxt == NextTimeStamp(rows, i)
            dur == IF IsNaN(nxt) THEN NaN ELSE <<nxt[1] - rows[i].TimeStamp>>
        IN  [DevID |-> rows[i].DevID, TimeStamp |-> rows[i].TimeStamp,
             CpuLoad |-> rows[i].CpuLoad, NextTimeStamp |-> nxt,
             Duration |-> dur,
             LoadTimesDuration |-> rows[i].CpuLoad * FillNa0(dur)]]

\* AvgCpuUsage of one summary row.
CpuLoadAvg(sumLoadTimesDuration, totalDurationSeconds) ==
    IF totalDurationSeconds > 0
    THEN Frac(sumLoadTimesDuration, totalDurationSeconds)
    ELSE Frac(0, 1)

\* A plausible slip: DataPoints=('Duration', 'count'), which leaves out the
\* rows whose Duration is NaN.
CpuLoadDataPointsOfDuration(g) ==
    Cardinality({i \in DOMAIN g : ~IsNaN(g[i].Duration)})

\* DataPoints=('CpuLoad', 'count'): the rows of the group whose CpuLoad is
\* a number, which after dropna is all of them.
CpuLoadDataPoints(g) == Len(g)

\* df.groupby('DevID').agg(...) followed by AvgCpuUsage.
CpuLoadSummary(rows) ==
    LET keys == SortedKeys({rows[i].DevID : i \in DOMAIN rows}, StrLess)
    IN  [k \in DOMAIN keys |->
            LET InGroup(r) == r.DevID = keys[k]
                g == SelectSeq(rows, InGroup)
                sld == SumSeq(Column(g, "LoadTimesDuration"))
                tds == SumSkipNa(Column(g, "Duration"))
            IN  [DevID |-> keys[k],
                 AvgCpuUsage |-> CpuLoadAvg(sld, tds),
                 MaxCpuUsage |-> MaxSeq(Column(g, "CpuLoad")),
                 DataPoints |-> CpuLoadDataPoints(g),
                 TotalDurationSeconds |-> tds]]

\* for line in f: one line of the log is read.
CpuLoadReadLine ==
    /\ report = "cpu_load" /\ pc = "reading" /\ line_num < MaxLines
    /\ \E line \in CpuLoadLines :
          LET e == CpuLoadExtract(line)
          IN  /\ extracted' = extracted \o e.recs
              /\ parsing_errors' = parsing_errors + e.err
    /\ line_num' = line_num + 1
    /\ UNCHANGED <<report, pc, df, summary, returned, wire, csv>>

\* The rest of process_cpu_load_file_time_weighted after the reading loop, on the records recs.
CpuLoadAggregate(recs) ==
    LET cleaned == CpuLoadClean(recs)
    IN  IF recs = <<>> \/ cleaned = <<>>
        THEN Result("None", cleaned, <<>>)
        ELSE LET frame == CpuLoadDurations(CpuLoadSort(cleaned))
             IN  Result("summary", frame, CpuLoadSummary(frame))

\* End of file: the rest of process_cpu_load_file_time_weighted.
CpuLoadSummarize ==
    /\ report = "cpu_load" /\ pc = "reading"
    /\ pc' = "done"
    /\ Returns(CpuLoadAggregate(extracted))
    /\ UNCHANGED <<report, line_num, parsing_errors, extracted, wire, csv>>

(***************************************************************************)
(* Per-global-next-timestamp policy, shared by txt-proc-cpu.py and         *)
(* txt-proc-mem.py.                                                        *)
(***************************************************************************)
\* Program names "sh" and "vi".
Names == {<<115, 104>>, <<118, 105>>}

ProcTimes == {0, 1, 3}

IntLess(a, b) == a < b

\* A plausible slip: df['TimeStamp'].unique() without the sort, the
\* timestamps in order of first appearance.
DistinctTimestampsUnsorted(rows) ==
    LET first == {i \in DOMAIN rows :
                     \A j \in 1..(i - 1) : rows[j].TimeStamp # rows[i].TimeStamp}
        idx == SortedKeys(first, IntLess)
    IN  [k \in DOMAIN idx |-> rows[idx[k]].TimeStamp]

\* A plausible slip: sort_values() without unique(), every timestamp kept
\* as often as it occurs.
TimestampsWithDuplicates(rows) ==
    SortStable([i \in DOMAIN rows |-> rows[i].TimeStamp], IntLess)

\* df['TimeStamp'].sort_values().unique()
DistinctTimestamps(rows) ==
    SortedKeys({rows[i].TimeStamp : i \in DOMAIN rows}, IntLess)

\* A plausible slip: ts_map pairing every distinct timestamp but the last
\* with the last one, so that a sample lasts until the end of the log.
LastOverallTimeStamp(distinct, ts) ==
    IF ts = distinct[Len(distinct)] THEN NaN ELSE <<distinct[Len(distinct)]>>

\* df['TimeStamp'].map(ts_map) at one row, ts_map pairing every distinct
\* timestamp but the last with its successor: the successor, or NaT.
NextOverallTimeStamp(distinct, ts) ==
    LET at == CHOOSE i \in DOMAIN distinct : distinct[i] = ts
    IN  IF at < Len(distinct) THEN <<distinct[at + 1]>> ELSE NaN

\* Series.clip(lower=0) on one cell.
ClipLower0(x) == IF x < 0 THEN 0 ELSE x

\* pandas' float division n / d: NaN for 0 / 0, +-inf (<<+-1, 0>>) for a
\* nonzero numerator over 0.
PdDiv(n, d) ==
    IF d # 0 THEN Frac(n, d)
    ELSE IF n = 0 THEN NaN
    ELSE IF n > 0 THEN <<1, 0>> ELSE <<-1, 0>>

(***************************************************************************)
(* txt-proc-cpu.py: CPU per program.                                       *)
(***************************************************************************)
CpuPercents == {1, 3}

\* The lines of a process CPU log.  kind:
\*   "ok"         a record with TimeStamp, Name, Cpu
\*   "late"       as "ok", with a TimeStamp beyond what to_datetime holds
\*   "malformed"  not JSON
\*   "missing"    JSON without TimeStamp, Name or Cpu
\*   "badvalue"   Cpu (or TimeStamp) is a non-numeric string
ProcCpuLines ==
    [kind : {"ok"}, Name : Names, TimeStamp : ProcTimes, Cpu : CpuPercents]
    \cup [kind : {"late"}, Name : {<<115, 104>>}, TimeStamp : {MaxEpoch + 1},
          Cpu : {1}]
    \cup [kind : {"malformed", "missing", "badvalue"}, Name : {<<>>},
          TimeStamp : {0}, Cpu : {0}]

\* One iteration of the reading loop.
ProcCpuExtract(line) ==
    CASE line.kind = "malformed" -> ParseError
      [] line.kind = "missing" -> Skipped
      [] line.kind = "badvalue" -> ParseError
      [] OTHER -> Appends(<<[TimeStamp |-> line.TimeStamp, Name |-> line.Name,
                             CpuPercent |-> line.Cpu]>>)

\* A plausible slip: the records appended to a frame kept at module level,
\* which still holds the rows of the previous call.
ProcCpuCleanOntoFrame(recs) ==
    LET Valid(r) == ~IsNaN(ToDatetime(r.TimeStamp)) IN SelectSeq(df \o recs, Valid)

\* to_datetime / to_numeric with errors='coerce', then dropna.
ProcCpuClean(recs) ==
    LET Valid(r) == ~IsNaN(ToDatetime(r.TimeStamp)) IN SelectSeq(recs, Valid)

\* A plausible slip: 0.0 as the placeholder of the undefined average.
ProcCpuFallbackZero(rows) ==
    LET keys == SortedKeys({rows[i].Name : i \in DOMAIN rows}, StrLess)
    IN  [k \in DOMAIN keys |->
            LET InGroup(r) == r.Name = keys[k]
                g == SelectSeq(rows, InGroup)
            IN  [Name |-> keys[k],
                 TimeWeightedAvgCpuPercent |-> Frac(0, 1),
                 MaxCpuUsage |-> MaxSeq(Column(g, "CpuPercent"))]]

\* The fallback summary: one row per program, the average NaN.
ProcCpuFallback(rows) ==
    LET keys == SortedKeys({rows[i].Name : i \in DOMAIN rows}, StrLess)
    IN  [k \in DOMAIN keys |->
            LET InGroup(r) == r.Name = keys[k]
                g == SelectSeq(rows, InGroup)
            IN  [Name |-> keys[k],
                 TimeWeightedAvgCpuPercent |-> NaN,
                 MaxCpuUsage |-> MaxSeq(Column(g, "CpuPercent"))]]

\* The columns NextOverallTimeStamp, Duration and CpuWeighted.
ProcCpuDurations(rows) ==
    LET distinct == DistinctTimestamps(rows)
    IN  [i \in DOMAIN rows |->
            LET nxt == NextOverallTimeStamp(distinct, rows[i].TimeStamp)
                dur == ClipLower0(FillNa0(
                           IF IsNaN(nxt) THEN NaN
                           ELSE <<nxt[1] - rows[i].TimeStamp>>))
            IN  [TimeStamp |-> rows[i].TimeStamp, Name |-> rows[i].Name,
                 CpuPercent |-> rows[i].CpuPercent,
                 NextOverallTimeStamp |-> nxt,
                 Duration |-> dur,
                 CpuWeighted |-> rows[i].CpuPercent * dur]]

\* A plausible slip: the weighted total divided by the number of samples.
ProcCpuAvgPerPoint(row) == PdDiv(row.TotalCpuWeighted, row.DataPoints)

\* summary['TotalCpuWeighted'] / summary['Duration'] at one row.
ProcCpuAvg(row) == PdDiv(row.TotalCpuWeighted, row.Duration)

\* Row order of sort_values(by='TotalCpuWeighted', ascending=False).
ProcCpuRowLess(a, b) == a.TotalCpuWeighted > b.TotalCpuWeighted

\* df.groupby('Name').agg(...), sorted, followed by AvgCpuPercent.
ProcCpuSummary(rows) ==
    LET keys == SortedKeys({rows[i].Name : i \in DOMAIN rows}, StrLess)
        agg == [k \in DOMAIN keys |->
                   LET InGroup(r) == r.Name = keys[k]
                       g == SelectSeq(rows, InGroup)
                   IN  [Name |-> keys[k],
                        TotalCpuWeighted |-> SumSeq(Column(g, "CpuWeighted")),
                        MaxCpuUsage |-> MaxSeq(Column(g, "CpuPercent")),
                        Duration |-> SumSeq(Column(g, "Duration")),
                        DataPoints |-> Len(g)]]
        sorted == SortStable(agg, ProcCpuRowLess)
    IN  [k \in DOMAIN sorted |->
            [Name |-> sorted[k].Name,
             Duration |-> sorted[k].Duration,
             AvgCpuPercent |-> ProcCpuAvg(sorted[k]),
             MaxCpuUsage |-> sorted[k].MaxCpuUsage,
             DataPoints |-> sorted[k].DataPoints]]

\* for line in f: one line of the log is read.
ProcCpuReadLine ==
    /\ report = "proc_cpu" /\ pc = "reading" /\ line_num < MaxLines
    /\ \E line \in ProcCpuLines :
          LET e == ProcCpuExtract(line)
          IN  /\ extracted' = extracted \o e.recs
              /\ parsing_errors' = parsing_errors + e.err
    /\ line_num' = line_num + 1
    /\ UNCHANGED <<report, pc, df, summary, returned, wire, csv>>

\* The rest of process_program_cpu_usage after the reading loop, on the records recs.
ProcCpuAggregate(recs) ==
    LET cleaned == ProcCpuClean(recs)
        distinct == DistinctTimestamps(cleaned)
    IN  IF recs = <<>> \/ cleaned = <<>>
        THEN Result("None", cleaned, <<>>)
        ELSE IF Len(distinct) < 2
        THEN Result("fallback", cleaned, ProcCpuFallback(cleaned))
        ELSE IF MaxSeq(distinct) - MinSeq(distinct) <= 0
        THEN Result("fallback", cleaned, ProcCpuFallback(cleaned))
        ELSE LET frame == ProcCpuDurations(cleaned)
             IN  Result("summary", frame, ProcCpuSummary(frame))

\* End of file: the rest of process_program_cpu_usage.
ProcCpuSummarize ==
    /\ report = "proc_cpu" /\ pc = "reading"
    /\ pc' = "done"
    /\ Returns(ProcCpuAggregate(extracted))
    /\ UNCHANGED <<report, line_num, parsing_errors, extracted, wire, csv>>

(***************************************************************************)
(* txt-proc-mem.py: memory per program.                                    *)
(***************************************************************************)
BYTES_TO_MIB == 1024 * 1024

\* The VmSize / VmPeak / VmHWM readings (bytes) a line may carry.
MemReadings ==
    {[VmSize |-> 1, VmPeak |-> 2, VmHWM |-> 1],
     [VmSize |-> 3, VmPeak |-> 4, VmHWM |-> 2]}

\* The lines of a process memory log.  kind:
\*   "ok"         a record with TimeStamp, Name, VmSize, VmPeak, VmHWM
\*   "late"       as "ok", with a TimeStamp beyond what to_datetime holds
\*   "malformed"  not JSON
\*   "missing"    JSON without one of the five fields
\*   "badvalue"   VmSize, VmPeak or VmHWM is not the text of an integer
ProcMemLines ==
    [kind : {"ok"}, Name : Names, TimeStamp : ProcTimes, Mem : MemReadings]
    \cup [kind : {"late"}, Name : {<<115, 104>>}, TimeStamp : {MaxEpoch + 1},
          Mem : {[VmSize |-> 1, VmPeak |-> 2, VmHWM |-> 1]}]
    \cup [kind : {"malformed", "missing", "badvalue"}, Name : {<<>>},
          TimeStamp : {0}, Mem : {[VmSize |-> 0, VmPeak |-> 0, VmHWM |-> 0]}]

\* One iteration of the reading loop.
ProcMemExtract(line) ==
    CASE line.kind = "malformed" -> ParseError
      [] line.kind = "missing" -> Skipped
      [] line.kind = "badvalue" -> ParseError
      [] OTHER -> Appends(<<[EpochTimeStamp |-> line.TimeStamp,
                             Name |-> line.Name,
                             VmSizeBytes |-> line.Mem.VmSize,
                             VmPeakBytes |-> line.Mem.VmPeak,
                             VmHwmBytes |-> line.Mem.VmHWM]>>)

\* df['TimeStamp'] = to_datetime(df['EpochTimeStamp']), then dropna.
ProcMemClean(recs) ==
    LET Valid(r) == ~IsNaN(ToDatetime(r.EpochTimeStamp))
        kept == SelectSeq(recs, Valid)
    IN  [i \in DOMAIN kept |->
            [EpochTimeStamp |-> kept[i].EpochTimeStamp,
             Name |-> kept[i].Name,
             VmSizeBytes |-> kept[i].VmSizeBytes,
             VmPeakBytes |-> kept[i].VmPeakBytes,
             VmHwmBytes |-> kept[i].VmHwmBytes,
             TimeStamp |-> ToDatetime(kept[i].EpochTimeStamp)[1]]]

\* A byte count (an integer) as MiB.
ToMiB(bytes) == Frac(bytes, BYTES_TO_MIB)

\* A float byte count, possibly NaN or infinite, as MiB.
FloatToMiB(x) ==
    IF IsNaN(x) \/ x[2] = 0 THEN x ELSE Frac(x[1], x[2] * BYTES_TO_MIB)

\* The fallback summary: one row per program, the average NaN.
ProcMemFallback(rows) ==
    LET keys == SortedKeys({rows[i].Name : i \in DOMAIN rows}, StrLess)
    IN  [k \in DOMAIN keys |->
            LET InGroup(r) == r.Name = keys[k]
                g == SelectSeq(rows, InGroup)
            IN  [Name |-> keys[k],
                 TimeWeightedAvgVmSizeMiB |-> NaN,
                 MaxVmPeakMiB |-> ToMiB(MaxSeq(Column(g, "VmPeakBytes"))),
                 MaxVmHwmMiB |-> ToMiB(MaxSeq(Column(g, "VmHwmBytes")))]]

\* The columns NextOverallTimeStamp, Duration and VmSizeWeighted.
ProcMemDurations(rows) ==
    LET distinct == DistinctTimestamps(rows)
        max_ts == MaxSeq(distinct)
    IN  [i \in DOMAIN rows |->
            LET mapped == NextOverallTimeStamp(distinct, rows[i].TimeStamp)
                nxt == IF IsNaN(mapped) THEN max_ts ELSE mapped[1]
                dur == ClipLower0(IF rows[i].TimeStamp = max_ts THEN 0
                                  ELSE nxt - rows[i].TimeStamp)
            IN  [EpochTimeStamp |-> rows[i].EpochTimeStamp,
                 Name |-> rows[i].Name,
                 VmSizeBytes |-> rows[i].VmSizeBytes,
                 VmPeakBytes |-> rows[i].VmPeakBytes,
                 VmHwmBytes |-> rows[i].VmHwmBytes,
                 TimeStamp |-> rows[i].TimeStamp,
                 NextOverallTimeStamp |-> nxt,
                 Duration |-> dur,
                 VmSizeWeighted |-> rows[i].VmSizeBytes * dur]]

\* df.groupby('Name').agg(...) followed by the MiB columns.
ProcMemSummary(rows) ==
    LET keys == SortedKeys({rows[i].Name : i \in DOMAIN rows}, StrLess)
    IN  [k \in DOMAIN keys |->
            LET InGroup(r) == r.Name = keys[k]
                g == SelectSeq(rows, InGroup)
                total == SumSeq(Column(g, "VmSizeWeighted"))
                peakDuration == SumSeq(Column(g, "Duration"))
            IN  [Name |-> keys[k],
                 TimeWeightedAvgVmSizeMiB |-> FloatToMiB(PdDiv(total, peakDuration)),
                 MaxVmPeakMiB |-> ToMiB(MaxSeq(Column(g, "VmPeakBytes"))),
                 MaxVmHwmMiB |-> ToMiB(MaxSeq(Column(g, "VmHwmBytes"))),
                 DataPoints |-> Len(g),
                 PeakDuration |-> peakDuration]]

\* for line in f: one line of the log is read.
ProcMemReadLine ==
    /\ report = "proc_mem" /\ pc = "reading" /\ line_num < MaxLines
    /\ \E line \in ProcMemLines :
          LET e == ProcMemExtract(line)
          IN  /\ extracted' = extracted \o e.recs
              /\ parsing_errors' = parsing_errors + e.err
    /\ line_num' = line_num + 1
    /\ UNCHANGED <<report, pc, df, summary, returned, wire, csv>>

\* The rest of process_program_vmemory_usage after the reading loop, on the records recs.
ProcMemAggregate(recs) ==
    LET cleaned == ProcMemClean(recs)
        distinct == DistinctTimestamps(cleaned)
    IN  IF recs = <<>> \/ cleaned = <<>>
        THEN Result("None", cleaned, <<>>)
        ELSE IF Len(distinct) < 2
        THEN Result("fallback", cleaned, ProcMemFallback(cleaned))
        ELSE IF MaxSeq(distinct) - MinSeq(distinct) <= 0
        THEN Result("None", cleaned, <<>>)
        ELSE LET frame == ProcMemDurations(cleaned)
             IN  Result("summary", frame, ProcMemSummary(frame))

\* End of file: the rest of process_program_vmemory_usage.
ProcMemSummarize ==
    /\ report = "proc_mem" /\ pc = "reading"
    /\ pc' = "done"
    /\ Returns(ProcMemAggregate(extracted))
    /\ UNCHANGED <<report, line_num, parsing_errors, extracted, wire, csv>>

(***************************************************************************)
(* txt_proc_mem.py: the other copy of the program-memory report.  Its      *)
(* reading loop, cleaning, fallback and duration columns are those of      *)
(* txt-proc-mem.py.                                                        *)
(***************************************************************************)
\* df.groupby('Name').agg(...), the average over total_duration_seconds,
\* and the MiB columns.
ProcMemCopySummary(rows, total_duration_seconds) ==
    LET keys == SortedKeys({rows[i].Name : i \in DOMAIN rows}, StrLess)
    IN  [k \in DOMAIN keys |->
            LET InGroup(r) == r.Name = keys[k]
                g == SelectSeq(rows, InGroup)
                total == SumSeq(Column(g, "VmSizeWeighted"))
            IN  [Name |-> keys[k],
                 TimeWeightedAvgVmSizeMiB |->
                     FloatToMiB(PdDiv(total, total_duration_seconds)),
                 MaxVmPeakMiB |-> ToMiB(MaxSeq(Column(g, "VmPeakBytes"))),
                 MaxVmHwmMiB |-> ToMiB(MaxSeq(Column(g, "VmHwmBytes"))),
                 DataPoints |-> Len(g)]]

\* The rest of process_program_vmemory_usage of txt_proc_mem.py after the
\* reading loop, on the records recs.
ProcMemCopyAggregate(recs) ==
    LET cleaned == ProcMemClean(recs)
        distinct == DistinctTimestamps(cleaned)
    IN  IF recs = <<>> \/ cleaned = <<>>
        THEN Result("None", cleaned, <<>>)
        ELSE IF Len(distinct) < 2
        THEN Result("fallback", cleaned, ProcMemFallback(cleaned))
        ELSE LET total_duration_seconds == MaxSeq(distinct) - MinSeq(distinct)
             IN  IF total_duration_seconds <= 0
                 THEN Result("fallback", cleaned, ProcMemFallback(cleaned))
                 ELSE LET frame == ProcMemDurations(cleaned)
                      IN  Result("summary", frame,
                                 ProcMemCopySummary(frame, total_duration_seconds))

\* for line in f: one line of the log is read.
ProcMemCopyReadLine ==
    /\ report = "proc_mem_copy" /\ pc = "reading" /\ line_num < MaxLines
    /\ \E line \in ProcMemLines :
          LET e == ProcMemExtract(line)
          IN  /\ extracted' = extracted \o e.recs
              /\ parsing_errors' = parsing_errors + e.err
    /\ line_num' = line_num + 1
    /\ UNCHANGED <<report, pc, df, summary, returned, wire, csv>>

\* End of file: the rest of process_program_vmemory_usage.
ProcMemCopySummarize ==
    /\ report = "proc_mem_copy" /\ pc = "reading"
    /\ pc' = "done"
    /\ Returns(ProcMemCopyAggregate(extracted))
    /\ UNCHANGED <<report, line_num, parsing_errors, extracted, wire, csv>>

(***************************************************************************)
(* txt-network.py: traffic per unordered IP pair, 1-second buckets.        *)
(***************************************************************************)
\* The addresses "1", "10" and "2" (in str order: "1" < "10" < "2").
Addresses == {<<49>>, <<49, 48>>, <<50>>}

\* A plausible slip: the pair as given, not sorted.
pair_as_given(ip1, ip2) == <<ip1, ip2>>

\* A plausible slip: the addresses ordered as numbers, "2" before "10".
pair_in_numeric_order(ip1, ip2) ==
    IF \/ Len(ip2) < Len(ip1)
       \/ Len(ip2) = Len(ip1) /\ StrLess(ip2, ip1)
    THEN <<ip2, ip1>> ELSE <<ip1, ip2>>

\* tuple(sorted((ip1, ip2)))
create_canonical_pair(ip1, ip2) ==
    IF StrLess(ip2, ip1) THEN <<ip2, ip1>> ELSE <<ip1, ip2>>

\* The (SRCIP, DSTIP) of most packets of the model: both directions of the
\* pair {"10", "2"}.
Flows == {<<<<49, 48>>, <<50>>>>, <<<<50>>, <<49, 48>>>>}

\* The (SRCIP, DSTIP) of a packet of another pair, {"1", "10"}.
OtherFlow == <<<<49, 48>>, <<49>>>>

NetTimes == {0, 1}

\* The time of a packet that follows an empty second.
NetGapTimes == {3}

NetLengths == {5, 7}

\* The packets of a batch.  kind:
\*   "ok"      a packet with TimeStamp, Length and IP.SRCIP / IP.DSTIP
\*   "late"    as "ok", with a TimeStamp beyond what to_datetime holds
\*   "noip"    a packet without IP (or TimeStamp, or Length, or an address)
\*   "badlen"  Length (or TimeStamp) is a non-numeric string
NetPackets ==
    [kind : {"ok"}, TimeStamp : NetTimes, Length : NetLengths, Flow : Flows]
    \cup [kind : {"ok"}, TimeStamp : {0}, Length : {5}, Flow : {OtherFlow}]
    \cup [kind : {"ok"}, TimeStamp : NetGapTimes, Length : {5},
          Flow : {<<<<49, 48>>, <<50>>>>}]
    \cup [kind : {"late"}, TimeStamp : {MaxEpoch + 1}, Length : {5},
          Flow : {<<<<49, 48>>, <<50>>>>}]
    \cup [kind : {"noip", "badlen"}, TimeStamp : {0}, Length : {0},
          Flow : {<<<<>>, <<>>>>}]

\* The record extracted_packets.append(...) adds for a packet.
NetRecord(packet) ==
    LET ip_pair == create_canonical_pair(packet.Flow[1], packet.Flow[2])
    IN  [PacketTimestamp |-> packet.TimeStamp, Length |-> packet.Length,
         IP_A |-> ip_pair[1], IP_B |-> ip_pair[2]]

\* to_datetime with errors='coerce', then dropna.
NetClean(recs) ==
    LET Valid(r) == ~IsNaN(ToDatetime(r.PacketTimestamp)) IN SelectSeq(recs, Valid)

\* Order of the group keys (IP_A, IP_B).
PairLess(p, q) == StrLess(p[1], q[1]) \/ (p[1] = q[1] /\ StrLess(p[2], q[2]))

\* Width of a bucket of pd.Grouper(freq='1s'), in seconds.
SecondsPerBucket == 1

\* A plausible slip: windows closed on the right, (k*w, (k+1)*w], as
\* pd.Grouper(freq=..., closed='right') builds them.
BucketOfClosedRight(ts, w) == ((ts + w - 1) \div w) * w

\* The bucket pd.Grouper(freq=...) puts a timestamp in: the start of its
\* window of w seconds.
BucketOf(ts, w) == (ts \div w) * w

\* A plausible slip: ['Length'].max() in place of sum().
BytesInSecondMax(group) == MaxSeq(Column(group, "Length"))

\* ['Length'].sum() over the packets of one (IP_A, IP_B, second) group.
BytesInSecond(group) == SumSeq(Column(group, "Length"))

\* A plausible slip: every second between the first and the last packet of
\* a pair is a group, as resampling each pair would give.
BucketKeysFilled(rows) ==
    LET SecondsOf(a, b) ==
            {BucketOf(rows[j].PacketTimestamp, SecondsPerBucket) :
                j \in {j \in DOMAIN rows : rows[j].IP_A = a /\ rows[j].IP_B = b}}
        Filled(a, b) ==
            {<<a, b, sec>> : sec \in SetMin(SecondsOf(a, b))..SetMax(SecondsOf(a, b))}
    IN  UNION {Filled(rows[i].IP_A, rows[i].IP_B) : i \in DOMAIN rows}

\* The groups of df.groupby([IP_A, IP_B, Grouper(freq='1s')]): the
\* (IP_A, IP_B, second) combinations that hold at least one packet.
BucketKeys(rows) ==
    {<<rows[i].IP_A, rows[i].IP_B,
       BucketOf(rows[i].PacketTimestamp, SecondsPerBucket)>> : i \in DOMAIN rows}

\* bytes_per_second: one row per (IP_A, IP_B, second) that holds a packet,
\* with the sum of Length over the packets of that pair in that second.
BytesPerSecond(rows) ==
    LET keys == BucketKeys(rows)
        KeyLess(a, b) ==
            \/ PairLess(<<a[1], a[2]>>, <<b[1], b[2]>>)
            \/ a[1] = b[1] /\ a[2] = b[2] /\ a[3] < b[3]
        sorted == SortedKeys(keys, KeyLess)
    IN  [k \in DOMAIN sorted |->
            LET InBucket(r) ==
                    /\ r.IP_A = sorted[k][1] /\ r.IP_B = sorted[k][2]
                    /\ BucketOf(r.PacketTimestamp, SecondsPerBucket) = sorted[k][3]
            IN  [IP_A |-> sorted[k][1], IP_B |-> sorted[k][2],
                 PacketTimestamp |-> sorted[k][3],
                 BytesInSecond |-> BytesInSecond(SelectSeq(rows, InBucket))]]

\* bytes * 8.0 / (seconds * 1_000_000.0)
Mbps(bytes, seconds) == Frac(bytes * 8, seconds * 1000000)

\* AvgRateMbps of one pair.
NetAvgRate(totalBytes, totalActiveSeconds) ==
    IF totalActiveSeconds > 0 THEN Mbps(totalBytes, totalActiveSeconds)
    ELSE Frac(0, 1)

\* A plausible slip: .min() in place of .max() on the per-second sums.
NetPeakRateOfMin(buckets) == Mbps(MinSeq(Column(buckets, "BytesInSecond")), 1)

\* PeakRateMbps of one pair, from its rows of bytes_per_second.
NetPeakRate(buckets) == Mbps(MaxSeq(Column(buckets, "BytesInSecond")), 1)

\* total_packets merged with avg_rate_data and peak_bytes.
NetSummary(rows) ==
    LET bps == BytesPerSecond(rows)
        keys == SortedKeys({<<rows[i].IP_A, rows[i].IP_B>> : i \in DOMAIN rows},
                           PairLess)
    IN  [k \in DOMAIN keys |->
            LET InPair(r) == r.IP_A = keys[k][1] /\ r.IP_B = keys[k][2]
                buckets == SelectSeq(bps, InPair)
                totalBytes == SumSeq(Column(buckets, "BytesInSecond"))
            IN  [IP_A |-> keys[k][1], IP_B |-> keys[k][2],
                 TotalPackets |-> Len(SelectSeq(rows, InPair)),
                 TotalBytes |-> totalBytes,
                 TotalActiveSeconds |-> Len(buckets),
                 AvgRateMbps |-> NetAvgRate(totalBytes, Len(buckets)),
                 PeakRateMbps |-> NetPeakRate(buckets)]]

\* for line in f: a line is read; it is not JSON, or it is a batch whose
\* packets are then looped over.
NetReadLine ==
    /\ report = "network" /\ pc = "reading" /\ line_num < MaxLines
    /\ line_num' = line_num + 1
    /\ \/ /\ parsing_errors' = parsing_errors + 1
          /\ pc' = pc
       \/ /\ parsing_errors' = parsing_errors
          /\ pc' = "batch"
    /\ UNCHANGED <<report, extracted, df, summary, returned, wire, csv>>

\* for packet in packets: one packet of the current batch.
NetReadPacket ==
    /\ report = "network" /\ pc = "batch"
    /\ \E packet \in NetPackets :
          CASE packet.kind = "noip" ->
                  UNCHANGED <<pc, parsing_errors, extracted, wire>>
            [] packet.kind = "badlen" ->
                  /\ parsing_errors' = parsing_errors + 1
                  /\ pc' = "reading"
                  /\ UNCHANGED <<extracted, wire>>
            [] OTHER ->
                  /\ Len(extracted) < MaxPackets
                  /\ extracted' = Append(extracted, NetRecord(packet))
                  /\ wire' = Append(wire, packet)
                  /\ UNCHANGED <<pc, parsing_errors>>
    /\ UNCHANGED <<report, line_num, df, summary, returned, csv>>

\* The batch has no further packet.
NetEndBatch ==
    /\ report = "network" /\ pc = "batch"
    /\ pc' = "reading"
    /\ UNCHANGED <<report, line_num, parsing_errors, extracted, df, summary,
                   returned, wire, csv>>

\* The rest of process_all_pairs_file after the reading loop, on the records recs.
NetAggregate(recs) ==
    LET cleaned == NetClean(recs)
    IN  IF recs = <<>> \/ cleaned = <<>>
        THEN Result("None", cleaned, <<>>)
        ELSE Result("summary", cleaned, NetSummary(cleaned))

\* End of file: the rest of process_all_pairs_file.
NetSummarize ==
    /\ report = "network" /\ pc = "reading"
    /\ pc' = "done"
    /\ Returns(NetAggregate(extracted))
    /\ UNCHANGED <<report, line_num, parsing_errors, extracted, wire, csv>>

(***************************************************************************)
(* txt-proc-new.py: new processes per device, 30-second windows.           *)
(***************************************************************************)
\* Width of a bucket of pd.Grouper(freq='30s'), in seconds.
ProcNewWindow == 30

\* The lines of a process creation log.  kind:
\*   "ok"         a record with DevID and TimeStamp
\*   "late"       as "ok", with a TimeStamp beyond what to_datetime holds
\*   "malformed"  not JSON
\*   "missing"    JSON without DevID or TimeStamp
\*   "badts"      TimeStamp is a non-numeric string
ProcNewLines ==
    [kind : {"ok"}, DevID : {<<100, 49>>}, TimeStamp : {25, 30, 35, 40, 60}]
    \cup [kind : {"ok"}, DevID : {<<100, 50>>}, TimeStamp : {25}]
    \cup [kind : {"late"}, DevID : {<<100, 49>>}, TimeStamp : {MaxEpoch + 1}]
    \cup [kind : {"malformed", "missing", "badts"}, DevID : {<<>>},
          TimeStamp : {0}]

\* One iteration of the reading loop.
ProcNewExtract(line) ==
    CASE line.kind = "malformed" -> ParseError
      [] line.kind = "missing" -> Skipped
      [] line.kind = "badts" -> ParseError
      [] OTHER -> Appends(<<[DevID |-> line.DevID,
                             EpochTimeStamp |-> line.TimeStamp]>>)

\* df['TimeStamp'] = to_datetime(df['EpochTimeStamp']), then dropna.
ProcNewClean(recs) ==
    LET Valid(r) == ~IsNaN(ToDatetime(r.EpochTimeStamp))
        kept == SelectSeq(recs, Valid)
    IN  [i \in DOMAIN kept |->
            [DevID |-> kept[i].DevID,
             EpochTimeStamp |-> kept[i].EpochTimeStamp,
             TimeStamp |-> ToDatetime(kept[i].EpochTimeStamp)[1]]]

\* A plausible slip: the peak taken over the whole group, not per bucket.
PeakOverGroup(group, w) == Len(group)

\* A plausible slip: .min() in place of .max() on the per-bucket counts.
PeakOfSmallestWindow(group, w) ==
    LET buckets == {BucketOf(group[i].TimeStamp, w) : i \in DOMAIN group}
        CountIn(b) == Cardinality({i \in DOMAIN group :
                                      BucketOf(group[i].TimeStamp, w) = b})
    IN  CHOOSE c \in {CountIn(b) : b \in buckets} :
            \A b \in buckets : c <= CountIn(b)

\* per_30s_counts.max(): the largest number of rows of the group in one
\* bucket of w seconds.
PeakPerWindow(group, w) ==
    LET buckets == {BucketOf(group[i].TimeStamp, w) : i \in DOMAIN group}
        CountIn(b) == Cardinality({i \in DOMAIN group :
                                      BucketOf(group[i].TimeStamp, w) = b})
    IN  CHOOSE c \in {CountIn(b) : b \in buckets} :
            \A b \in buckets : CountIn(b) <= c

\* A plausible slip: duration_seconds / w without the floor of one window.
NumIntervalsUnfloored(duration_seconds, w) == Frac(duration_seconds, w)

\* max(1.0, duration_seconds / w)
NumIntervals(duration_seconds, w) ==
    IF duration_seconds < w THEN Frac(1, 1) ELSE Frac(duration_seconds, w)

\* A plausible slip: total * num_intervals.
TimesFrac(total, f) == Frac(total * f[1], f[2])

\* total / num_intervals, num_intervals a positive float.
DivByFrac(total, f) == Frac(total * f[2], f[1])

\* A plausible slip: first_proc_time and last_proc_time taken on df, the
\* frame of all devices, in place of group_df.
ProcNewSummaryOverallSpan(rows) ==
    LET keys == SortedKeys({rows[i].DevID : i \in DOMAIN rows}, StrLess)
        duration_seconds == MaxSeq(Column(rows, "TimeStamp"))
                            - MinSeq(Column(rows, "TimeStamp"))
    IN  [k \in DOMAIN keys |->
            LET InGroup(r) == r.DevID = keys[k]
                g == SelectSeq(rows, InGroup)
            IN  [DevID |-> keys[k],
                 TotalNewProcs |-> Len(g),
                 AvgNewProcsPer30Sec |->
                     DivByFrac(Len(g), NumIntervals(duration_seconds, ProcNewWindow)),
                 PeakNewProcsPer30Sec |-> PeakPerWindow(g, ProcNewWindow),
                 TotalTime |-> duration_seconds]]

\* The loop over df.groupby('DevID'): one summary row per device.
ProcNewSummary(rows) ==
    LET keys == SortedKeys({rows[i].DevID : i \in DOMAIN rows}, StrLess)
    IN  [k \in DOMAIN keys |->
            LET InGroup(r) == r.DevID = keys[k]
                g == SelectSeq(rows, InGroup)
                duration_seconds == MaxSeq(Column(g, "TimeStamp"))
                                    - MinSeq(Column(g, "TimeStamp"))
            IN  [DevID |-> keys[k],
                 TotalNewProcs |-> Len(g),
                 AvgNewProcsPer30Sec |->
                     DivByFrac(Len(g), NumIntervals(duration_seconds, ProcNewWindow)),
                 PeakNewProcsPer30Sec |-> PeakPerWindow(g, ProcNewWindow),
                 TotalTime |-> duration_seconds]]

\* for line in f: one line of the log is read.
ProcNewReadLine ==
    /\ report = "proc_new" /\ pc = "reading" /\ line_num < MaxEvents
    /\ \E line \in ProcNewLines :
          LET e == ProcNewExtract(line)
          IN  /\ extracted' = extracted \o e.recs
              /\ parsing_errors' = parsing_errors + e.err
    /\ line_num' = line_num + 1
    /\ UNCHANGED <<report, pc, df, summary, returned, wire, csv>>

\* The rest of process_proc_creation_log after the reading loop, on the records recs.
ProcNewAggregate(recs) ==
    LET cleaned == ProcNewClean(recs)
    IN  IF recs = <<>> \/ cleaned = <<>>
        THEN Result("None", cleaned, <<>>)
        ELSE Result("summary", cleaned, ProcNewSummary(cleaned))

\* End of file: the rest of process_proc_creation_log.
ProcNewSummarize ==
    /\ report = "proc_new" /\ pc = "reading"
    /\ pc' = "done"
    /\ Returns(ProcNewAggregate(extracted))
    /\ UNCHANGED <<report, line_num, parsing_errors, extracted, wire, csv>>

(***************************************************************************)
(* txt-file.py: file changes per device after the baseline, 1-minute       *)
(* windows.                                                                *)
(***************************************************************************)
\* Width of a bucket of pd.Grouper(freq='1min'), in seconds.
FileWindow == 60

FileTimes == {0, 5, 60, 95}

\* The lines of a file change log.  kind:
\*   "ok"         a record with DevID and TimeStamp
\*   "late"       as "ok", with a TimeStamp beyond what to_datetime holds
\*   "malformed"  not JSON
\*   "missing"    JSON without DevID or TimeStamp
\*   "badts"      TimeStamp is a non-numeric string
FileLines ==
    [kind : {"ok"}, DevID : DevIDs, TimeStamp : FileTimes]
    \cup [kind : {"late"}, DevID : {<<100, 49>>}, TimeStamp : {MaxEpoch + 1}]
    \cup [kind : {"malformed", "missing", "badts"}, DevID : {<<>>},
          TimeStamp : {0}]

\* One iteration of the reading loop.
FileExtract(line) ==
    CASE line.kind = "malformed" -> ParseError
      [] line.kind = "missing" -> Skipped
      [] line.kind = "badts" -> ParseError
      [] OTHER -> Appends(<<[DevID |-> line.DevID,
                             EpochTimeStamp |-> line.TimeStamp]>>)

\* df['TimeStamp'] = to_datetime(df['EpochTimeStamp']), then dropna.
FileClean(recs) ==
    LET Valid(r) == ~IsNaN(ToDatetime(r.EpochTimeStamp))
        kept == SelectSeq(recs, Valid)
    IN  [i \in DOMAIN kept |->
            [DevID |-> kept[i].DevID,
             EpochTimeStamp |-> kept[i].EpochTimeStamp,
             TimeStamp |-> ToDatetime(kept[i].EpochTimeStamp)[1]]]

\* min_timestamp_epoch = df['EpochTimeStamp'].min()
FileBaseline(rows) == MinSeq(Column(rows, "EpochTimeStamp"))

\* A plausible slip: >= in place of >, which keeps the baseline records.
FileChangesWithBaseline(rows) ==
    LET NotBefore(r) == r.EpochTimeStamp >= FileBaseline(rows)
    IN  SelectSeq(rows, NotBefore)

\* df_changes = df[df['EpochTimeStamp'] > min_timestamp_epoch]
FileChanges(rows) ==
    LET After(r) == r.EpochTimeStamp > FileBaseline(rows)
    IN  SelectSeq(rows, After)

\* df['DevID'].unique(): the distinct devices in order of first appearance.
UniqueDevIDs(rows) ==
    LET First(i) == \A j \in 1..(i - 1) : rows[j].DevID # rows[i].DevID
        firsts == SelectSeq([i \in DOMAIN rows |-> i], First)
    IN  [k \in DOMAIN firsts |-> rows[firsts[k]].DevID]

\* zero_summary: one all-zero row per device of the log.
FileZeroSummary(rows) ==
    LET dev_ids == UniqueDevIDs(rows)
    IN  [k \in DOMAIN dev_ids |->
            [DevID |-> dev_ids[k],
             TotalFilesChanged |-> 0,
             AvgFilesChangedPerMin |-> Frac(0, 1),
             PeakFilesChangedPerMin |-> 0,
             ChangeTimeSpanMinutes |-> Frac(0, 1)]]

\* The loop over df_changes.groupby('DevID'): one summary row per device
\* that has a change.
FileSummary(changes) ==
    LET keys == SortedKeys({changes[i].DevID : i \in DOMAIN changes}, StrLess)
    IN  [k \in DOMAIN keys |->
            LET InGroup(r) == r.DevID = keys[k]
                g == SelectSeq(changes, InGroup)
                duration_seconds == MaxSeq(Column(g, "TimeStamp"))
                                    - MinSeq(Column(g, "TimeStamp"))
                duration_minutes == NumIntervals(duration_seconds, FileWindow)
            IN  [DevID |-> keys[k],
                 TotalFilesChanged |-> Len(g),
                 AvgFilesChangedPerMin |-> DivByFrac(Len(g), duration_minutes),
                 PeakFilesChangedPerMin |-> PeakPerWindow(g, FileWindow),
                 ChangeTimeSpanMinutes |-> duration_minutes]]

\* for line in f: one line of the log is read.
FileReadLine ==
    /\ report = "file" /\ pc = "reading" /\ line_num < MaxLines
    /\ \E line \in FileLines :
          LET e == FileExtract(line)
          IN  /\ extracted' = extracted \o e.recs
              /\ parsing_errors' = parsing_errors + e.err
    /\ line_num' = line_num + 1
    /\ UNCHANGED <<report, pc, df, summary, returned, wire, csv>>

\* The rest of process_file_change_log after the reading loop, on the records recs.
FileAggregate(recs) ==
    LET cleaned == FileClean(recs)
    IN  IF recs = <<>> \/ cleaned = <<>>
        THEN Result("None", cleaned, <<>>)
        ELSE LET df_changes == FileChanges(cleaned)
             IN  IF df_changes = <<>>
                 THEN Result("zero_summary", df_changes, FileZeroSummary(cleaned))
                 ELSE Result("summary", df_changes, FileSummary(df_changes))

\* End of file: the rest of process_file_change_log.
FileSummarize ==
    /\ report = "file" /\ pc = "reading"
    /\ pc' = "done"
    /\ Returns(FileAggregate(extracted))
    /\ UNCHANGED <<report, line_num, parsing_errors, extracted, wire, csv>>

(***************************************************************************)
(* Specifications.                                                         *)
(***************************************************************************)
InitOf(r) ==
    /\ report = r
    /\ pc = "reading"
    /\ line_num = 0
    /\ parsing_errors = 0
    /\ extracted = <<>>
    /\ df = <<>>
    /\ summary = <<>>
    /\ returned = "pending"
    /\ wire = <<>>
    /\ csv = <<>>

InitCpuLoad == InitOf("cpu_load")

NextCpuLoad == CpuLoadReadLine \/ CpuLoadSummarize

SpecCpuLoad == InitCpuLoad /\ [][NextCpuLoad]_vars

InitProcCpu == InitOf("proc_cpu")

NextProcCpu == ProcCpuReadLine \/ ProcCpuSummarize

SpecProcCpu == InitProcCpu /\ [][NextProcCpu]_vars

InitProcMem == InitOf("proc_mem")

NextProcMem == ProcMemReadLine \/ ProcMemSummarize

SpecProcMem == InitProcMem /\ [][NextProcMem]_vars

InitProcMemCopy == InitOf("proc_mem_copy")

NextProcMemCopy == ProcMemCopyReadLine \/ ProcMemCopySummarize

SpecProcMemCopy == InitProcMemCopy /\ [][NextProcMemCopy]_vars

InitNet == InitOf("network")

NextNet == NetReadLine \/ NetReadPacket \/ NetEndBatch \/ NetSummarize

SpecNet == InitNet /\ [][NextNet]_vars

InitProcNew == InitOf("proc_new")

NextProcNew == ProcNewReadLine \/ ProcNewSummarize

SpecProcNew == InitProcNew /\ [][NextProcNew]_vars

InitFile == InitOf("file")

NextFile == FileReadLine \/ FileSummarize

SpecFile == InitFile /\ [][NextFile]_vars

\* Any one of the scripts that summarise every sample of the log runs.
Init ==
    \E r \in {"cpu_load", "proc_cpu", "proc_mem", "network", "proc_new"} : InitOf(r)

Next == NextCpuLoad \/ NextProcCpu \/ NextProcMem \/ NextNet \/ NextProcNew

Spec == Init /\ [][Next]_vars

\* Any one of the scripts that bucket their samples into windows runs.
InitWindows == \E r \in {"network", "proc_new", "file"} : InitOf(r)

NextWindows == NextNet \/ NextProcNew \/ NextFile

SpecWindows == InitWindows /\ [][NextWindows]_vars

(***************************************************************************)
(* A run of a script: __main__ calls the processing function and writes    *)
(* the summary; a second call of the function on the same log.             *)
(***************************************************************************)
\* Row order of sort_values(by=SORT_BY_COLUMN, ascending=False) in
\* txt-network.py, SORT_BY_COLUMN = 'TotalBytes'.
NetMoreBytes(a, b) == a.TotalBytes > b.TotalBytes

\* The table __main__ hands to to_csv: the network script sorts it first,
\* the other scripts write the summary as returned.
Written(table) ==
    IF report = "network" THEN SortStable(table, NetMoreBytes) ELSE table

\* __main__ after the function returned: the summary is written when it is
\* neither None nor empty (to_csv may fail, which is reported), otherwise a
\* message is printed; the script ends.
Main ==
    /\ pc = "done"
    /\ IF returned # "None" /\ summary # <<>>
       THEN \/ /\ csv' = Written(summary)
               /\ pc' = "saved"
            \/ /\ csv' = csv
               /\ pc' = "save_failed"
       ELSE /\ csv' = csv
            /\ pc' = "no_data"
    /\ UNCHANGED <<report, line_num, parsing_errors, extracted, df, summary,
                   returned, wire>>

\* The processing function of the script that runs, on the records recs.
Aggregate(recs) ==
    CASE report = "cpu_load" -> CpuLoadAggregate(recs)
      [] report = "proc_cpu" -> ProcCpuAggregate(recs)
      [] report = "proc_mem" -> ProcMemAggregate(recs)
      [] report = "network" -> NetAggregate(recs)
      [] report = "proc_new" -> ProcNewAggregate(recs)
      [] report = "file" -> FileAggregate(recs)

\* The function is called once more on the same log, which yields the same
\* extracted records.
AggregateAgain ==
    /\ pc = "done"
    /\ pc' = "again"
    /\ Returns(Aggregate(extracted))
    /\ UNCHANGED <<report, line_num, parsing_errors, extracted, wire, csv>>

InitRun ==
    \E r \in {"cpu_load", "proc_cpu", "proc_mem", "network", "proc_new", "file"} :
        InitOf(r)

NextRun == Next \/ NextFile \/ Main \/ AggregateAgain

SpecRun == InitRun /\ [][NextRun]_vars

(***************************************************************************)
(* Properties.                                                             *)
(***************************************************************************)
\* The function returned a summary computed by the full aggregation.
Summarized(r) == report = r /\ pc = "done" /\ returned = "summary"

\* The rows of the frame that belong to one device.
DeviceRows(dev) == LET InGroup(r) == r.DevID = dev IN SelectSeq(df, InGroup)

\* The (TimeStamp, CpuLoad) pairs of a group of the CPU load frame.
LoadSamples(g) == [i \in DOMAIN g |-> <<g[i].TimeStamp, g[i].CpuLoad>>]

\* Sum over i < n of v_i * (t_{i+1} - t_i), and of (t_{i+1} - t_i).
WeightedSum(g) ==
    SumSeq([i \in 1..(Len(g) - 1) |->
               g[i].CpuLoad * (g[i + 1].TimeStamp - g[i].TimeStamp)])

SpanSum(g) ==
    SumSeq([i \in 1..(Len(g) - 1) |-> g[i + 1].TimeStamp - g[i].TimeStamp])

Scenario1 == <<<<0, 10>>, <<10, 20>>, <<20, 30>>>>

\* C1: in the CPU load report every device whose samples, in timestamp
\* order, span a positive time gets AvgCpuUsage = sum of v_i * (t_{i+1} - t_i)
\* over the sum of (t_{i+1} - t_i), the last sample weighing nothing; the
\* samples (0,10), (10,20), (20,30) give 15.
C1_TimeWeightedAverage ==
    Summarized("cpu_load") =>
        \A k \in DOMAIN summary :
            LET g == DeviceRows(summary[k].DevID)
                n == Len(g)
            IN  /\ n = Cardinality({i \in DOMAIN extracted :
                                       /\ extracted[i].DevID = summary[k].DevID
                                       /\ ~IsNaN(ToDatetime(extracted[i].TimeStamp))})
                /\ \A i \in 1..(n - 1) : g[i].TimeStamp <= g[i + 1].TimeStamp
                /\ g[n].TimeStamp > g[1].TimeStamp =>
                       summary[k].AvgCpuUsage = Frac(WeightedSum(g), SpanSum(g))
                /\ LoadSamples(g) = Scenario1 => summary[k].AvgCpuUsage = <<15, 1>>

\* Scenario 1, read out of timestamp order.
C1_Witness ==
    /\ Summarized("cpu_load")
    /\ Len(summary) = 1
    /\ LoadSamples(DeviceRows(summary[1].DevID)) = Scenario1
    /\ extracted[1].TimeStamp = 20
    /\ summary[1].AvgCpuUsage = <<15, 1>>

\* The indices of the extracted records of one entity that survive cleaning.
ValidOf(keyField, key, tsField) ==
    {i \in DOMAIN extracted :
        /\ extracted[i][keyField] = key
        /\ ~IsNaN(ToDatetime(extracted[i][tsField]))}

\* The raw values of one entity, as extracted.
RawValues(keyField, key, tsField, valField) ==
    {extracted[i][valField] : i \in ValidOf(keyField, key, tsField)}

\* lo <= avg <= hi, avg a float that is a number.
Between(lo, avg, hi) ==
    /\ ~IsNaN(avg)
    /\ avg[2] > 0
    /\ FracLeq(lo, avg)
    /\ FracLeq(avg, hi)

\* C2: in every time-weighted report, a group whose duration sum is
\* positive has its time-weighted average between the smallest and the
\* largest raw value of the group.
C2_AverageBounded ==
    /\ Summarized("cpu_load") =>
          \A k \in DOMAIN summary :
              LET vals == RawValues("DevID", summary[k].DevID, "TimeStamp", "CpuLoad")
              IN  summary[k].TotalDurationSeconds > 0 =>
                      Between(Frac(SetMin(vals), 1), summary[k].AvgCpuUsage,
                              Frac(SetMax(vals), 1))
    /\ Summarized("proc_cpu") =>
          \A k \in DOMAIN summary :
              LET vals == RawValues("Name", summary[k].Name, "TimeStamp", "CpuPercent")
              IN  summary[k].Duration > 0 =>
                      Between(Frac(SetMin(vals), 1), summary[k].AvgCpuPercent,
                              Frac(SetMax(vals), 1))
    /\ Summarized("proc_mem") =>
          \A k \in DOMAIN summary :
              LET vals == RawValues("Name", summary[k].Name, "EpochTimeStamp",
                                    "VmSizeBytes")
              IN  summary[k].PeakDuration > 0 =>
                      Between(Frac(SetMin(vals), BYTES_TO_MIB),
                              summary[k].TimeWeightedAvgVmSizeMiB,
                              Frac(SetMax(vals), BYTES_TO_MIB))

\* A program whose average lies strictly between its smallest and its
\* largest value, its samples weighted 1 s and 2 s.
C2_Witness ==
    /\ Summarized("proc_cpu")
    /\ \E k \in DOMAIN summary :
          /\ summary[k].Duration = 3
          /\ summary[k].AvgCpuPercent = <<5, 3>>
          /\ RawValues("Name", summary[k].Name, "TimeStamp", "CpuPercent") = {1, 3}

\* C3: in every time-weighted report, a group whose duration sum is 0 has
\* its time-weighted average reported as unavailable (NaN), never as the
\* number 0, and its max is the largest raw value of the group.
C3_ZeroDurationUnavailable ==
    /\ Summarized("cpu_load") =>
          \A k \in DOMAIN summary :
              summary[k].TotalDurationSeconds = 0 =>
                  /\ IsNaN(summary[k].AvgCpuUsage)
                  /\ summary[k].MaxCpuUsage =
                         SetMax(RawValues("DevID", summary[k].DevID, "TimeStamp",
                                          "CpuLoad"))
    /\ Summarized("proc_cpu") =>
          \A k \in DOMAIN summary :
              summary[k].Duration = 0 =>
                  /\ IsNaN(summary[k].AvgCpuPercent)
                  /\ summary[k].MaxCpuUsage =
                         SetMax(RawValues("Name", summary[k].Name, "TimeStamp",
                                          "CpuPercent"))
    /\ Summarized("proc_mem") =>
          \A k \in DOMAIN summary :
              summary[k].PeakDuration = 0 =>
                  /\ IsNaN(summary[k].TimeWeightedAvgVmSizeMiB)
                  /\ summary[k].MaxVmPeakMiB =
                         ToMiB(SetMax(RawValues("Name", summary[k].Name,
                                                "EpochTimeStamp", "VmPeakBytes")))

\* C4: every duration assigned to a sample is >= 0, whatever the order of
\* the input and however many samples share a timestamp; in the
\* per-entity-next-sample report two consecutive samples of a device with
\* equal timestamps give the earlier one duration 0.
C4_DurationsNonNegative ==
    /\ Summarized("cpu_load") =>
          /\ \A i \in DOMAIN df : IsNaN(df[i].Duration) \/ df[i].Duration[1] >= 0
          /\ \A i \in DOMAIN df :
                 IsNaN(df[i].Duration) <=>
                     \A j \in DOMAIN df : j > i => df[j].DevID # df[i].DevID
          /\ \A i \in 1..(Len(df) - 1) :
                 (df[i].DevID = df[i + 1].DevID
                  /\ df[i].TimeStamp = df[i + 1].TimeStamp) => df[i].Duration = <<0>>
    /\ (Summarized("proc_cpu") \/ Summarized("proc_mem")) =>
          \A i \in DOMAIN df : df[i].Duration >= 0

\* Three samples of one device read latest first, two of them sharing a
\* timestamp: the earlier of the two gets duration 0.
C4_Witness ==
    /\ Summarized("cpu_load")
    /\ Len(df) = 3
    /\ extracted[1].TimeStamp = 20
    /\ extracted[2].TimeStamp = 0
    /\ extracted[3].TimeStamp = 0
    /\ df[1].Duration = <<0>>
    /\ df[2].Duration = <<20>>

\* The field of an extracted record that holds its epoch timestamp.
TsField == IF report \in {"proc_mem", "proc_mem_copy", "proc_new", "file"} THEN "EpochTimeStamp"
           ELSE IF report = "network" THEN "PacketTimestamp"
           ELSE "TimeStamp"

\* The indices of the extracted records that survive cleaning, and their
\* timestamps.
ValidIndices == {i \in DOMAIN extracted : ~IsNaN(ToDatetime(extracted[i][TsField]))}

ValidTimes == {extracted[i][TsField] : i \in ValidIndices}

\* C5: in the per-global reports, with D the distinct timestamps over all
\* programs, a sample at t # max(D) gets duration (smallest element of D
\* greater than t) - t whatever its program, and a sample at max(D) gets 0.
C5_GlobalNextTimestamp ==
    (Summarized("proc_cpu") \/ Summarized("proc_mem")) =>
        /\ Len(df) = Cardinality(ValidIndices)
        /\ \A i \in DOMAIN df :
              /\ df[i].TimeStamp \in ValidTimes
              /\ df[i].Duration =
                     IF df[i].TimeStamp = SetMax(ValidTimes) THEN 0
                     ELSE SetMin({d \in ValidTimes : d > df[i].TimeStamp})
                          - df[i].TimeStamp

\* Read latest first: a program sampled at 0 and 3 while another one is
\* sampled at 1; the sample at 0 lasts until 1, not until 3.
C5_Witness ==
    /\ Summarized("proc_cpu")
    /\ Len(df) = 3
    /\ df[1].TimeStamp = 3 /\ df[1].Duration = 0
    /\ df[2].TimeStamp = 1 /\ df[2].Duration = 2
    /\ df[3].TimeStamp = 0 /\ df[3].Duration = 1
    /\ df[1].Name = df[3].Name
    /\ df[2].Name # df[3].Name

\* The programs of the cleaned data.
ValidNames == {extracted[i].Name : i \in ValidIndices}

\* C6: in the per-global reports, cleaned data with fewer than 2 distinct
\* timestamps still yields a result: one row per program, its
\* time-weighted average NaN and its max columns the largest raw value of
\* the program (no row at all when no record survives cleaning).
C6_FewerThanTwoTimestamps ==
    (report \in {"proc_cpu", "proc_mem"} /\ pc = "done"
     /\ Cardinality(ValidTimes) < 2) =>
        IF ValidIndices = {}
        THEN returned = "None" /\ summary = <<>>
        ELSE /\ returned = "fallback"
             /\ Len(summary) = Cardinality(ValidNames)
             /\ {summary[k].Name : k \in DOMAIN summary} = ValidNames
             /\ \A k \in DOMAIN summary :
                   IF report = "proc_cpu"
                   THEN /\ IsNaN(summary[k].TimeWeightedAvgCpuPercent)
                        /\ summary[k].MaxCpuUsage =
                               SetMax(RawValues("Name", summary[k].Name, TsField,
                                                "CpuPercent"))
                   ELSE /\ IsNaN(summary[k].TimeWeightedAvgVmSizeMiB)
                        /\ summary[k].MaxVmPeakMiB =
                               ToMiB(SetMax(RawValues("Name", summary[k].Name,
                                                      TsField, "VmPeakBytes")))
                        /\ summary[k].MaxVmHwmMiB =
                               ToMiB(SetMax(RawValues("Name", summary[k].Name,
                                                      TsField, "VmHwmBytes")))

\* Two programs sampled at one and the same timestamp, one of them twice
\* with different readings.
C6_Witness ==
    /\ report = "proc_mem" /\ pc = "done" /\ returned = "fallback"
    /\ Cardinality(ValidTimes) = 1
    /\ Len(summary) = 2
    /\ \E k \in DOMAIN summary :
          /\ Cardinality(ValidOf("Name", summary[k].Name, TsField)) = 2
          /\ summary[k].MaxVmPeakMiB = ToMiB(4)
          /\ RawValues("Name", summary[k].Name, TsField, "VmPeakBytes") = {2, 4}

\* The input with the packets whose index is in S sent the other way.
Reversed(S) ==
    [i \in DOMAIN wire |->
        IF i \in S THEN [wire[i] EXCEPT !.Flow = <<wire[i].Flow[2], wire[i].Flow[1]>>]
        ELSE wire[i]]

\* The summary rows the script computes from the packets of an input.
SummaryOf(packets) ==
    LET cleaned == NetClean([i \in DOMAIN packets |-> NetRecord(packets[i])])
    IN  IF cleaned = <<>> THEN <<>> ELSE NetSummary(cleaned)

\* C7: create_canonical_pair(x, y) = create_canonical_pair(y, x) for all
\* addresses, so an input and the same input with some packets keyed the
\* other way round give the same summary, with a single row for the pair.
C7_CanonicalPairSymmetric ==
    /\ \A x \in Addresses, y \in Addresses :
          create_canonical_pair(x, y) = create_canonical_pair(y, x)
    /\ (report = "network" /\ pc = "done" /\ wire # <<>>) =>
          /\ \A S \in SUBSET DOMAIN wire : SummaryOf(Reversed(S)) = summary
          /\ \A k1 \in DOMAIN summary, k2 \in DOMAIN summary :
                {summary[k1].IP_A, summary[k1].IP_B}
                    = {summary[k2].IP_A, summary[k2].IP_B} => k1 = k2

\* Packets of one pair in both directions, merged into one row.
C7_Witness ==
    /\ Summarized("network")
    /\ Len(wire) = 3
    /\ wire[1].Flow = <<<<49, 48>>, <<50>>>>
    /\ wire[2].Flow = <<<<50>>, <<49, 48>>>>
    /\ wire[3].Flow = <<<<50>>, <<49, 48>>>>
    /\ Len(summary) = 1
    /\ summary[1].TotalPackets = 3
    /\ summary[1].IP_A = <<49, 48>> /\ summary[1].IP_B = <<50>>

\* The entity key of an extracted record or of a summary row.
KeyOf(r) == IF report = "network" THEN <<r.IP_A, r.IP_B>>
            ELSE IF report \in {"cpu_load", "proc_new"} THEN r.DevID
            ELSE r.Name

\* The number of samples a summary row says it covers.
CountOf(row) == IF report = "network" THEN row.TotalPackets
                ELSE IF report = "proc_new" THEN row.TotalNewProcs
                ELSE row.DataPoints

\* C8: grouping is exhaustive and disjoint: every valid sample is counted
\* in exactly one summary row, the per-row counts add up to the number of
\* valid samples, and no two rows share an entity key.
C8_GroupingPartition ==
    (pc = "done" /\ returned = "summary") =>
        /\ \A i \in ValidIndices :
              Cardinality({k \in DOMAIN summary :
                              KeyOf(summary[k]) = KeyOf(extracted[i])}) = 1
        /\ \A k \in DOMAIN summary :
              /\ CountOf(summary[k]) >= 1
              /\ CountOf(summary[k]) =
                     Cardinality({i \in ValidIndices :
                                     KeyOf(extracted[i]) = KeyOf(summary[k])})
        /\ SumSeq([k \in DOMAIN summary |-> CountOf(summary[k])])
               = Cardinality(ValidIndices)
        /\ \A k1 \in DOMAIN summary, k2 \in DOMAIN summary :
              KeyOf(summary[k1]) = KeyOf(summary[k2]) => k1 = k2

\* Two devices, one with two samples, beside a record dropped by cleaning.
C8_Witness ==
    /\ Summarized("proc_new")
    /\ Len(extracted) = 4
    /\ Cardinality(ValidIndices) = 3
    /\ Len(summary) = 2
    /\ summary[1].TotalNewProcs = 2
    /\ summary[2].TotalNewProcs = 1

\* The valid packets of the input that travel between a and b, either way.
PacketsBetween(a, b) ==
    LET Test(p) == /\ {p.Flow[1], p.Flow[2]} = {a, b}
                   /\ ~IsNaN(ToDatetime(p.TimeStamp))
    IN  SelectSeq(wire, Test)

\* The sum of Length over the packets of a pair sent in second sec.
BytesAt(packets, sec) ==
    LET Test(p) == p.TimeStamp = sec
    IN  SumSeq(Column(SelectSeq(packets, Test), "Length"))

\* C9: for every IP pair TotalBytes, the sum of its per-second bucket sums,
\* equals the sum of Length over all valid packets of the pair.
C9_BytesConserved ==
    Summarized("network") =>
        /\ \A k \in DOMAIN summary :
              summary[k].TotalBytes =
                  SumSeq(Column(PacketsBetween(summary[k].IP_A, summary[k].IP_B),
                                "Length"))
        /\ SumSeq(Column(summary, "TotalBytes"))
               = SumSeq([i \in DOMAIN df |-> df[i].Length])

\* A pair with two packets in one second and a third in another second.
C9_Witness ==
    /\ Summarized("network")
    /\ Len(summary) = 1
    /\ summary[1].TotalPackets = 3
    /\ summary[1].TotalActiveSeconds = 2
    /\ summary[1].TotalBytes = 19

\* The (TimeStamp, Length) of a sequence of packets.
Trace(packets) ==
    [i \in DOMAIN packets |-> <<packets[i].TimeStamp, packets[i].Length>>]

\* C10: for every IP pair the peak is the largest per-second sum of Length
\* and the average is the total bytes over the number of active seconds,
\* the seconds that hold at least one packet of the pair; lengths 5 and 5
\* at t=0 and 7 at t=1 give a peak bucket of 10 and an average of 17/2.
C10_RateStyle ==
    Summarized("network") =>
        \A k \in DOMAIN summary :
            LET packets == PacketsBetween(summary[k].IP_A, summary[k].IP_B)
                active == {packets[i].TimeStamp : i \in DOMAIN packets}
                total == SumSeq(Column(packets, "Length"))
                peak == SetMax({BytesAt(packets, sec) : sec \in active})
            IN  /\ summary[k].TotalActiveSeconds = Cardinality(active)
                /\ summary[k].PeakRateMbps = Frac(peak * 8, 1000000)
                /\ summary[k].AvgRateMbps
                       = Frac(total * 8, Cardinality(active) * 1000000)
                /\ Trace(packets) = <<<<0, 5>>, <<0, 5>>, <<1, 7>>>> =>
                       /\ summary[k].PeakRateMbps = Frac(10 * 8, 1000000)
                       /\ summary[k].AvgRateMbps = Frac(17 * 8, 2 * 1000000)
                       /\ summary[k].TotalActiveSeconds = 2

\* Scenario 3: two packets of 5 bytes in second 0, one of 7 in second 1.
C10_Witness ==
    /\ Summarized("network")
    /\ Len(summary) = 1
    /\ Trace(wire) = <<<<0, 5>>, <<0, 5>>, <<1, 7>>>>
    /\ summary[1].PeakRateMbps = Frac(80, 1000000)
    /\ summary[1].AvgRateMbps = Frac(68, 1000000)

(***************************************************************************)
(* Count-style reports: txt-proc-new.py and txt-file.py.                   *)
(***************************************************************************)
\* The window width of the report that runs, in seconds.
WindowOf == IF report = "proc_new" THEN ProcNewWindow
            ELSE IF report = "file" THEN FileWindow
            ELSE SecondsPerBucket

TotalOf(row) == IF report = "proc_new" THEN row.TotalNewProcs
                ELSE row.TotalFilesChanged

AvgOf(row) == IF report = "proc_new" THEN row.AvgNewProcsPer30Sec
              ELSE row.AvgFilesChangedPerMin

PeakOf(row) == IF report = "proc_new" THEN row.PeakNewProcsPer30Sec
               ELSE row.PeakFilesChangedPerMin

\* The input records a count-style report counts for a device: its valid
\* records, in the file-change report those later than the earliest valid
\* timestamp of the log.
CountedIndices(dev) ==
    {i \in ValidIndices :
        /\ extracted[i].DevID = dev
        /\ report = "file" => extracted[i].EpochTimeStamp > SetMin(ValidTimes)}

CountedTimes(dev) == {extracted[i].EpochTimeStamp : i \in CountedIndices(dev)}

\* C11: in the process-creation and the file-change report, the average of
\* every device is its total count divided by max(1, span / W), span the
\* time from its first to its last counted record and W the window width
\* (30 s, 60 s): the total itself when span < W, total * W / span otherwise.
C11_CountStyleAverage ==
    (report \in {"proc_new", "file"} /\ pc = "done"
        /\ returned \in {"summary", "zero_summary"}) =>
        \A k \in DOMAIN summary :
            LET row == summary[k]
                times == CountedTimes(row.DevID)
                total == Cardinality(CountedIndices(row.DevID))
            IN  /\ TotalOf(row) = total
                /\ IF times = {} THEN AvgOf(row) = <<0, 1>>
                   ELSE LET span == SetMax(times) - SetMin(times)
                        IN  IF span < WindowOf
                            THEN AvgOf(row) = <<total, 1>>
                            ELSE AvgOf(row)[1] * span
                                     = total * WindowOf * AvgOf(row)[2]

\* A device with two events 35 s apart (7/6 of a window, average 12/7)
\* beside a device with a single event (one window, average 1).
C11_Witness ==
    /\ Summarized("proc_new")
    /\ Len(summary) = 2
    /\ summary[1].TotalNewProcs = 2
    /\ summary[1].TotalTime = 35
    /\ summary[1].AvgNewProcsPer30Sec = <<12, 7>>
    /\ summary[2].TotalNewProcs = 1
    /\ summary[2].AvgNewProcsPer30Sec = <<1, 1>>

\* C12 as stated: in the process-creation report a device whose events
\* span less than the 30-second window has a peak equal to its total count,
\* wherever the events fall on the time axis.
C12_ShortSpanPeakIsTotal ==
    Summarized("proc_new") =>
        \A k \in DOMAIN summary :
            summary[k].TotalTime < ProcNewWindow =>
                summary[k].PeakNewProcsPer30Sec = summary[k].TotalNewProcs

\* C12, amended: the peak of a device equals its total count exactly when
\* all its events fall in one window [k*30, (k+1)*30); events that span
\* less than 30 s across a window boundary give a peak below the total.
C12_OneWindowPeakIsTotal ==
    Summarized("proc_new") =>
        \A k \in DOMAIN summary :
            LET times == CountedTimes(summary[k].DevID)
            IN  (summary[k].PeakNewProcsPer30Sec = summary[k].TotalNewProcs)
                    <=> (\A t \in times, u \in times :
                            t \div ProcNewWindow = u \div ProcNewWindow)

\* Five events across the 10 seconds from 30 to 40, all in the window
\* [30, 60): average 5, peak 5.
C12_Witness ==
    /\ Summarized("proc_new")
    /\ Len(summary) = 1
    /\ summary[1].TotalNewProcs = 5
    /\ summary[1].TotalTime = 10
    /\ CountedTimes(summary[1].DevID) = {30, 35, 40}
    /\ summary[1].AvgNewProcsPer30Sec = <<5, 1>>
    /\ summary[1].PeakNewProcsPer30Sec = 5

\* The number of counted records of a device in window k.
CountInWindow(dev, k) ==
    Cardinality({i \in CountedIndices(dev) :
                    extracted[i].EpochTimeStamp \div WindowOf = k})

\* The windows that hold a valid record of the log.
WindowsOfLog == {t \div WindowOf : t \in ValidTimes}

\* C13: window k is [k*W, (k+1)*W), k = floor(timestamp / W): the peak of
\* an entity is the largest count (process creation, file changes) or
\* Length sum (network) of its samples over the windows, so a sample at
\* exactly (k+1)*W counts in window k+1.
C13_HalfOpenWindows ==
    (pc = "done" /\ returned = "summary") =>
        \A r \in DOMAIN summary :
            IF report = "network"
            THEN LET packets == PacketsBetween(summary[r].IP_A, summary[r].IP_B)
                 IN  summary[r].PeakRateMbps =
                         Frac(8 * SetMax({BytesAt(packets, k) : k \in WindowsOfLog}),
                              1000000)
            ELSE PeakOf(summary[r]) =
                     SetMax({CountInWindow(summary[r].DevID, k) :
                                k \in WindowsOfLog})

\* Events at 25, 30 and 30: the two at exactly 30 belong to [30, 60), the
\* one at 25 to [0, 30), so the peak is 2 of 3.
C13_Witness ==
    /\ Summarized("proc_new")
    /\ Len(summary) = 1
    /\ CountedTimes(summary[1].DevID) = {25, 30}
    /\ summary[1].TotalNewProcs = 3
    /\ CountInWindow(summary[1].DevID, 1) = 2
    /\ summary[1].PeakNewProcsPer30Sec = 2

(***************************************************************************)
(* The baseline of the file-change report.                                 *)
(***************************************************************************)
\* The devices that have a valid record in the log.
ValidDevices == {extracted[i].DevID : i \in ValidIndices}

ZeroRow(dev) ==
    [DevID |-> dev, TotalFilesChanged |-> 0, AvgFilesChangedPerMin |-> <<0, 1>>,
     PeakFilesChangedPerMin |-> 0, ChangeTimeSpanMinutes |-> <<0, 1>>]

\* C14: in the file-change report every device whose valid records all lie
\* at the baseline has an all-zero row in the output, whether or not
\* another device has records after the baseline.
C14_BaselineOnlyDeviceHasZeroRow ==
    (report = "file" /\ pc = "done" /\ returned # "None") =>
        \A dev \in ValidDevices :
            CountedIndices(dev) = {} =>
                \E k \in DOMAIN summary : summary[k] = ZeroRow(dev)

\* C15: the baseline of the file-change report is the earliest valid
\* timestamp of the whole log; TotalFilesChanged of a device is the number
\* of its records strictly later than the baseline, its own earliest record
\* included when that is later than the baseline, and every record later
\* than the baseline is counted in some row.
C15_BaselineExcluded ==
    (report = "file" /\ pc = "done" /\ returned # "None") =>
        LET baseline == SetMin(ValidTimes)
            Later(dev) == {i \in ValidIndices :
                              /\ extracted[i].DevID = dev
                              /\ extracted[i].EpochTimeStamp > baseline}
        IN  /\ \A k \in DOMAIN summary :
                  summary[k].TotalFilesChanged = Cardinality(Later(summary[k].DevID))
            /\ SumSeq([k \in DOMAIN summary |-> summary[k].TotalFilesChanged])
                   = Cardinality({i \in ValidIndices :
                                     extracted[i].EpochTimeStamp > baseline})

\* Baseline 0 set by device d1, which also has a record at 5; device d2 has
\* its only record at 5, later than the baseline, and it is counted.
C15_Witness ==
    /\ report = "file" /\ pc = "done" /\ returned = "summary"
    /\ ValidTimes = {0, 5}
    /\ Len(extracted) = 3
    /\ Len(summary) = 2
    /\ summary[1].TotalFilesChanged = 1
    /\ summary[2].TotalFilesChanged = 1
    /\ \A i \in ValidIndices :
          extracted[i].DevID = summary[2].DevID => extracted[i].EpochTimeStamp = 5

(***************************************************************************)
(* The extractor.                                                          *)
(***************************************************************************)
\* C16: in the CPU-load and the per-program CPU report every line read has
\* either yielded exactly one record or been counted exactly once in the
\* parse-error counter, so records and counter add up to the lines read.
C16_LineLevelRecovery ==
    report \in {"cpu_load", "proc_cpu"} =>
        line_num = Len(extracted) + parsing_errors

(***************************************************************************)
(* Runs of a script.                                                       *)
(***************************************************************************)
\* The script has ended.
Ended == pc \in {"saved", "save_failed", "no_data"}

\* C17: when no record is extracted, or none survives cleaning, the
\* function returns None; the script then ends with no output file; and an
\* output file is written only from a summary that is not empty.
C17_EmptyResult ==
    /\ (pc \in {"done", "again"} \cup {"saved", "save_failed", "no_data"}
           /\ (extracted = <<>> \/ ValidIndices = {})) =>
          (returned = "None" /\ summary = <<>>)
    /\ (Ended /\ returned = "None") => (pc = "no_data" /\ csv = <<>>)
    /\ csv # <<>> => (pc = "saved" /\ returned # "None" /\ summary # <<>>)

\* Records were extracted, none survived cleaning, and the script ended
\* without an output file.
C17_Witness ==
    /\ pc = "no_data"
    /\ extracted # <<>>
    /\ ValidIndices = {}
    /\ returned = "None"
    /\ csv = <<>>

SamplesAt(rows, t) ==
    LET At(r) == r.TimeStamp = t
        sel == SelectSeq(rows, At)
    IN  [i \in DOMAIN sel |-> <<sel[i].TimeStamp, sel[i].CpuLoad>>]

\* The valid input records of a device, in input order.
InputOf(dev) ==
    LET Mine(r) == r.DevID = dev /\ ~IsNaN(ToDatetime(r.TimeStamp))
    IN  SelectSeq(extracted, Mine)

\* C19: after the sort of the CPU-load report, within every device group
\* the timestamps are non-decreasing, the group holds exactly the samples
\* the device had in the input, and the samples of a group that share a
\* timestamp are in their input order.
C19_StableTimeline ==
    Summarized("cpu_load") =>
        \A dev \in DevIDs :
            LET g == DeviceRows(dev)
                inp == InputOf(dev)
            IN  /\ \A i \in DOMAIN g, j \in DOMAIN g :
                      i < j => g[i].TimeStamp <= g[j].TimeStamp
                /\ Len(g) = Len(inp)
                /\ \A t \in CpuTimes : SamplesAt(g, t) = SamplesAt(inp, t)

\* A device whose input is a sample at 10 followed by two samples at 0
\* with loads 30 and 20: the sort moves the two in front, 30 before 20.
C19_Witness ==
    /\ Summarized("cpu_load")
    /\ Len(extracted) = 3
    /\ extracted[1].TimeStamp = 10
    /\ Len(df) = 3
    /\ df[1].DevID = df[3].DevID
    /\ df[1].TimeStamp = 0 /\ df[1].CpuLoad = 30
    /\ df[2].TimeStamp = 0 /\ df[2].CpuLoad = 20
    /\ df[3].TimeStamp = 10

(***************************************************************************)
(* Independence of the groups.                                             *)
(***************************************************************************)
\* The entity key of a row of the frame or of the summary.
EntityOf(r) == IF report \in {"cpu_load", "proc_new"} THEN r.DevID ELSE r.Name

\* The rows of the frame of one entity.  In the per-global reports the
\* frame carries the durations read off the global timestamp map.
GroupOf(key) == LET Mine(r) == EntityOf(r) = key IN SelectSeq(df, Mine)

\* The aggregation step of the report that runs, applied to a frame.
SummaryOfFrame(rows) ==
    CASE report = "cpu_load" -> CpuLoadSummary(rows)
      [] report = "proc_cpu" -> ProcCpuSummary(rows)
      [] report = "proc_mem" -> ProcMemSummary(rows)
      [] report = "proc_new" -> ProcNewSummary(rows)

\* The orders in which the groups of the frame can be taken.
GroupOrders ==
    LET keys == {EntityOf(df[i]) : i \in DOMAIN df}
    IN  {o \in [1..Cardinality(keys) -> keys] :
            \A i, j \in DOMAIN o : o[i] = o[j] => i = j}

\* The groups laid one after the other in the order o.
RECURSIVE GroupsInOrder(_)
GroupsInOrder(o) ==
    IF o = <<>> THEN <<>> ELSE GroupOf(Head(o)) \o GroupsInOrder(Tail(o))

C21_LineAtomic ==
    (report = "network" /\ pc # "batch" /\ parsing_errors = line_num) =>
        extracted = <<>>

(***************************************************************************)
(* The two copies of the program-memory report.                            *)
(***************************************************************************)
\* The columns the two copies have in common.
CommonColumns(row) ==
    [Name |-> row.Name,
     TimeWeightedAvgVmSizeMiB |-> row.TimeWeightedAvgVmSizeMiB,
     MaxVmPeakMiB |-> row.MaxVmPeakMiB,
     MaxVmHwmMiB |-> row.MaxVmHwmMiB,
     DataPoints |-> row.DataPoints]

\* C22: on every log with at least 2 distinct timestamps txt_proc_mem.py
\* and txt-proc-mem.py report, for every program, the same
\* TimeWeightedAvgVmSizeMiB, MaxVmPeakMiB, MaxVmHwmMiB and DataPoints.
C22_CopiesEquivalent ==
    (report = "proc_mem_copy" /\ pc = "done" /\ Cardinality(ValidTimes) >= 2) =>
        LET other == ProcMemAggregate(extracted).summary
        IN  /\ Len(other) = Len(summary)
            /\ \A k \in DOMAIN summary :
                  CommonColumns(other[k]) = CommonColumns(summary[k])

(***************************************************************************)
(* Durations and spans.                                                    *)
(***************************************************************************)
\* C23: in the per-global reports a log that passes the check for at least
\* 2 distinct timestamps has a span max - min > 0: the function returns the
\* fallback rows exactly when there are fewer than 2 distinct timestamps,
\* and never leaves through the 'total duration is zero or negative'
\* branch, through which txt-proc-mem.py would return no table.
C23_SpanPositive ==
    (report \in {"proc_cpu", "proc_mem"} /\ pc = "done" /\ ValidIndices # {}) =>
        /\ returned \in {"fallback", "summary"}
        /\ returned = "fallback" <=> Cardinality(ValidTimes) < 2
        /\ returned = "summary" => SetMax(ValidTimes) - SetMin(ValidTimes) > 0

\* The program-memory report on three records at the timestamps 0, 0, 1:
\* two distinct timestamps, span 1, a summary is returned.
C23_Witness ==
    /\ report = "proc_mem" /\ pc = "done"
    /\ Cardinality(ValidIndices) = 3
    /\ ValidTimes = {0, 1}
    /\ returned = "summary"

\* The timestamps of the valid input records of a device.
TimesOf(dev) == {InputOf(dev)[i].TimeStamp : i \in DOMAIN InputOf(dev)}

\* C24: in the CPU-load report TotalDurationSeconds of a device is its
\* last timestamp minus its first, whatever the number and input order of
\* its samples and whether or not some share a timestamp; 0 for a device
\* with a single sample.
C24_DurationsTelescope ==
    Summarized("cpu_load") =>
        \A k \in DOMAIN summary :
            LET times == TimesOf(summary[k].DevID)
            IN  /\ summary[k].TotalDurationSeconds = SetMax(times) - SetMin(times)
                /\ summary[k].DataPoints = 1 => summary[k].TotalDurationSeconds = 0

\* One device whose input is a sample at 20 followed by two samples at 0:
\* out of order, with a shared timestamp, and a total duration of 20.
C24_Witness ==
    /\ Summarized("cpu_load")
    /\ Len(summary) = 1
    /\ Len(extracted) = 3
    /\ extracted[1].TimeStamp = 20
    /\ extracted[2].TimeStamp = 0
    /\ extracted[3].TimeStamp = 0
    /\ summary[1].DataPoints = 3
    /\ summary[1].TotalDurationSeconds = 20

\* The largest number of valid records a program has at one timestamp.
Multiplicity(name) ==
    SetMax({Cardinality({i \in ValidIndices :
                            /\ extracted[i].Name = name
                            /\ extracted[i].TimeStamp = t}) : t \in ValidTimes})

\* C25 as stated: in the program-CPU report the Duration of a program never
\* exceeds the span of the log, max - min of the global timestamps, also
\* when several records carry the same name at the same timestamp.
C25_DurationWithinSpan ==
    Summarized("proc_cpu") =>
        \A k \in DOMAIN summary :
            summary[k].Duration <= SetMax(ValidTimes) - SetMin(ValidTimes)

\* C25, amended: the Duration of a program is at most the span of the log
\* times the largest number of records the program has at one timestamp;
\* it stays within the span when the program has at most one record per
\* timestamp.
C25_DurationWithinSpanPerRecord ==
    Summarized("proc_cpu") =>
        \A k \in DOMAIN summary :
            LET span == SetMax(ValidTimes) - SetMin(ValidTimes)
                mult == Multiplicity(summary[k].Name)
            IN  /\ summary[k].Duration <= span * mult
                /\ mult = 1 => summary[k].Duration <= span

\* A program with two records at 0 and one at 1: each record at 0 lasts
\* until 1, so Duration is 2, twice the span of the log.
C25_Witness ==
    /\ Summarized("proc_cpu")
    /\ ValidTimes = {0, 1}
    /\ Len(summary) = 1
    /\ Multiplicity(summary[1].Name) = 2
    /\ summary[1].DataPoints = 3
    /\ summary[1].Duration = 2

(***************************************************************************)
(* Peak against average.                                                   *)
(***************************************************************************)
\* C26: in the network report, packet lengths being non-negative, every
\* pair has PeakRateMbps >= AvgRateMbps and 1 <= TotalActiveSeconds <=
\* TotalPackets.
C26_PeakAtLeastAverage ==
    Summarized("network") =>
        \A k \in DOMAIN summary :
            /\ FracLeq(summary[k].AvgRateMbps, summary[k].PeakRateMbps)
            /\ 1 <= summary[k].TotalActiveSeconds
            /\ summary[k].TotalActiveSeconds <= summary[k].TotalPackets

\* A pair with three packets in two active seconds, 12 bytes in one and 5
\* in the other: the peak is above the average.
C26_Witness ==
    /\ Summarized("network")
    /\ Len(summary) = 1
    /\ summary[1].TotalPackets = 3
    /\ summary[1].TotalActiveSeconds = 2
    /\ summary[1].TotalBytes = 17
    /\ summary[1].PeakRateMbps = Frac(96, 1000000)
    /\ summary[1].AvgRateMbps = Frac(68, 1000000)

\* The windows that hold a counted record of a device.
WindowsOf(dev) == {t \div WindowOf : t \in CountedTimes(dev)}

\* C27 as stated: in the process-creation and the file-change report the
\* peak per window of every device is at least its average per window.
C27_PeakAtLeastAverage ==
    (report \in {"proc_new", "file"} /\ pc = "done"
        /\ returned \in {"summary", "zero_summary"}) =>
        \A k \in DOMAIN summary :
            FracLeq(AvgOf(summary[k]), Frac(PeakOf(summary[k]), 1))

\* C27, amended: the peak of a device times the number of windows that
\* hold one of its events is at least its total count, and the peak is at
\* least the average when all its events fall in one window; events that
\* span less than a window across a window boundary have an average (the
\* total) above the peak.
C27_PeakCoversWindows ==
    (report \in {"proc_new", "file"} /\ pc = "done"
        /\ returned \in {"summary", "zero_summary"}) =>
        \A k \in DOMAIN summary :
            LET row == summary[k]
                windows == Cardinality(WindowsOf(row.DevID))
            IN  /\ PeakOf(row) * windows >= TotalOf(row)
                /\ PeakOf(row) <= TotalOf(row)
                /\ windows <= 1 => FracLeq(AvgOf(row), Frac(PeakOf(row), 1))

\* Events at 25, 30 and 35: two windows, total 3, peak 2, average 3.
C27_Witness ==
    /\ Summarized("proc_new")
    /\ Len(summary) = 1
    /\ CountedTimes(summary[1].DevID) = {25, 30, 35}
    /\ Cardinality(WindowsOf(summary[1].DevID)) = 2
    /\ summary[1].TotalNewProcs = 3
    /\ summary[1].PeakNewProcsPer30Sec = 2
    /\ summary[1].AvgNewProcsPer30Sec = <<3, 1>>

\* C28: in the process-creation and the file-change report every row of a
\* device that has an event has an average per window above 0 and at most
\* the device's total count, and the ChangeTimeSpanMinutes of the
\* file-change report is at least 1.0, the floored denominator, also when
\* all the events of the device share one timestamp.
C28_AverageWithinTotal ==
    (report \in {"proc_new", "file"} /\ pc = "done" /\ returned = "summary") =>
        \A k \in DOMAIN summary :
            LET row == summary[k]
            IN  /\ TotalOf(row) >= 1
                /\ ~FracLeq(AvgOf(row), Frac(0, 1))
                /\ FracLeq(AvgOf(row), Frac(TotalOf(row), 1))
                /\ report = "file" =>
                      /\ FracLeq(Frac(1, 1), row.ChangeTimeSpanMinutes)
                      /\ Cardinality(CountedTimes(row.DevID)) = 1 =>
                             row.ChangeTimeSpanMinutes = Frac(1, 1)

\* A device whose two file changes share the timestamp 60: they are
\* reported over 1.0 minute, with average 2.
C28_Witness ==
    /\ Summarized("file")
    /\ \E k \in DOMAIN summary :
          /\ summary[k].TotalFilesChanged = 2
          /\ CountedTimes(summary[k].DevID) = {60}
          /\ summary[k].ChangeTimeSpanMinutes = Frac(1, 1)
          /\ summary[k].AvgFilesChangedPerMin = Frac(2, 1)

\* C29: in the network summary every row has IP_A <= IP_B in string
\* order, no two rows describe the same unordered pair of addresses, and
\* for any addresses x and y all valid packets between x and y, in either
\* direction, are counted in exactly one row.
C29_OneRowPerUnorderedPair ==
    Summarized("network") =>
        /\ \A k \in DOMAIN summary : ~StrLess(summary[k].IP_B, summary[k].IP_A)
        /\ \A k1 \in DOMAIN summary, k2 \in DOMAIN summary :
              {summary[k1].IP_A, summary[k1].IP_B}
                  = {summary[k2].IP_A, summary[k2].IP_B} => k1 = k2
        /\ \A x \in Addresses, y \in Addresses :
              LET rows == {k \in DOMAIN summary :
                              {summary[k].IP_A, summary[k].IP_B} = {x, y}}
                  packets == PacketsBetween(x, y)
              IN  IF packets = <<>> THEN rows = {}
                  ELSE /\ Cardinality(rows) = 1
                       /\ \A k \in rows :
                             summary[k].TotalPackets = Len(packets)

\* Packets 2 -> 10 and 10 -> 2 in one row ("10", "2") beside the row
\* ("1", "10") of a packet 10 -> 1.
C29_Witness ==
    /\ Summarized("network")
    /\ Len(summary) = 2
    /\ \E i \in DOMAIN wire : wire[i].Flow = <<<<50>>, <<49, 48>>>>
    /\ \E i \in DOMAIN wire : wire[i].Flow = <<<<49, 48>>, <<50>>>>
    /\ \E i \in DOMAIN wire : wire[i].Flow = <<<<49, 48>>, <<49>>>>
    /\ summary[1].IP_A = <<49>> /\ summary[1].IP_B = <<49, 48>>
    /\ summary[1].TotalPackets = 1
    /\ summary[2].IP_A = <<49, 48>> /\ summary[2].IP_B = <<50>>
    /\ summary[2].TotalPackets = 2

(***************************************************************************)
(* The order of the input lines.                                           *)
(***************************************************************************)
\* The orders in which n records can be laid out.
Orders(n) == {p \in [1..n -> 1..n] : \A i, j \in 1..n : p[i] = p[j] => i = j}

\* The records recs in the order p.
Reordered(recs, p) == [i \in DOMAIN recs |-> recs[p[i]]]

\* The order p keeps the input order of the records of one device that
\* share a timestamp and differ in load.
KeepsTies(recs, p) ==
    \A i, j \in DOMAIN recs :
        (/\ i < j
         /\ recs[p[i]].DevID = recs[p[j]].DevID
         /\ recs[p[i]].TimeStamp = recs[p[j]].TimeStamp
         /\ recs[p[i]].CpuLoad # recs[p[j]].CpuLoad) => p[i] < p[j]

\* C30 as stated: the CPU-load summary is the same for every order of the
\* input records, samples of one device with the same timestamp and
\* different loads included.
C30_OrderIndependent ==
    Summarized("cpu_load") =>
        \A p \in Orders(Len(extracted)) :
            CpuLoadAggregate(Reordered(extracted, p)).summary = summary

\* C30, amended: MaxCpuUsage, DataPoints and TotalDurationSeconds of every
\* device are the same for every order of the input records; AvgCpuUsage
\* is the same for every order that keeps the input order of the samples of
\* a device that share a timestamp and differ in load.
C30_OrderIndependentUpToTies ==
    Summarized("cpu_load") =>
        \A p \in Orders(Len(extracted)) :
            LET other == CpuLoadAggregate(Reordered(extracted, p)).summary
            IN  /\ Len(other) = Len(summary)
                /\ \A k \in DOMAIN summary :
                      /\ other[k].DevID = summary[k].DevID
                      /\ other[k].MaxCpuUsage = summary[k].MaxCpuUsage
                      /\ other[k].DataPoints = summary[k].DataPoints
                      /\ other[k].TotalDurationSeconds
                             = summary[k].TotalDurationSeconds
                /\ KeepsTies(extracted, p) => other = summary

\* A device sampled at 0 with load 10, again at 0 with load 30, and at 10:
\* the average is 30, and 10 when the two samples at 0 come in the other
\* order.
C30_Witness ==
    /\ Summarized("cpu_load")
    /\ Len(extracted) = 3
    /\ extracted[1].DevID = extracted[2].DevID
    /\ extracted[2].DevID = extracted[3].DevID
    /\ extracted[1].TimeStamp = 0 /\ extracted[1].CpuLoad = 10
    /\ extracted[2].TimeStamp = 0 /\ extracted[2].CpuLoad = 30
    /\ extracted[3].TimeStamp = 10
    /\ Len(summary) = 1
    /\ summary[1].AvgCpuUsage = Frac(30, 1)
    /\ summary[1].TotalDurationSeconds = 10
    /\ \E p \in Orders(3) :
          CpuLoadAggregate(Reordered(extracted, p)).summary[1].AvgCpuUsage
              = Frac(10, 1)

====
